---- MODULE Spec2Model ----
(***************************************************************************)
(* A model of the e2asm 8086 assembler's back half: the semantic analyzer  *)
(* (pass 1: symbols, addresses, sizes), the instruction encoder and the    *)
(* code generator (pass 2: bytes and listing), and the driver that turns   *)
(* both into an AssemblyResult.                                            *)
(*                                                                         *)
(* A program is the parser's output: a sequence of statement records.      *)
(* Names are sequences of one-character strings, so that qualification     *)
(* (concatenation), the leading-dot test and case folding are computed.    *)
(***************************************************************************)
EXTENDS Integers, Sequences, FiniteSets, TLC

VARIABLES
    source,     \* the source handed to assemble, statement by statement
    impl,       \* Assembler::Impl's configuration (origin)
    previous,   \* what the caller keeps of the assemble call before this one
    program,    \* Program::statements, with the decorations the analyzer writes
    pc,         \* position of the run: start, pass1, generate, finish, done
    idx,        \* index of the next statement of the running pass
    sa,         \* SemanticAnalyzer's fields
    symtab,     \* SymbolTable: m_symbols and m_current_global_label
    cg,         \* CodeGenerator's fields (binary, listing, address, error reporter)
    result      \* the AssemblyResult returned by assemble

vars == <<source, impl, previous, program, pc, idx, sa, symtab, cg, result>>

\* ------------------------------------------------------------------ bounds
MaxStmts == 4
MaxScopeStmts == 5
MaxMemStmts == 3
MaxRegStmts == 2
MaxCaseStmts == 3

\* ------------------------------------------------------------------ names
DOT == "."

UPPERCASE ==
    <<"A", "B", "C", "D", "E", "F", "G", "H", "I", "J", "K", "L", "M",
      "N", "O", "P", "Q", "R", "S", "T", "U", "V", "W", "X", "Y", "Z">>

LOWERCASE ==
    <<"a", "b", "c", "d", "e", "f", "g", "h", "i", "j", "k", "l", "m",
      "n", "o", "p", "q", "r", "s", "t", "u", "v", "w", "x", "y", "z">>

\* ::tolower on one character
Lower(c) ==
    IF \E i \in DOMAIN UPPERCASE : UPPERCASE[i] = c
    THEN LOWERCASE[CHOOSE i \in DOMAIN UPPERCASE : UPPERCASE[i] = c]
    ELSE c

\* CaseInsensitiveHash / CaseInsensitiveEqual: keys are compared after tolower
FoldCase(s) == [i \in 1..Len(s) |-> Lower(s[i])]

isLocalLabel(label) == Len(label) > 0 /\ label[1] = DOT

\* getFullyQualifiedName without the scope
getUnqualifiedName(scope, label) == label

getFullyQualifiedName(scope, label) ==
    IF Len(label) > 0 /\ label[1] = DOT /\ Len(scope) > 0
    THEN scope \o label
    ELSE label

\* ------------------------------------------------------------------ symbol table
NoSymbol == [found |-> FALSE]

Symbol(n, t, val, line) ==
    [found |-> TRUE, name |-> n, type |-> t, value |-> val,
     is_resolved |-> TRUE, definition_line |-> line]

SymExists(tab, name) ==
    FoldCase(getFullyQualifiedName(tab.m_current_global_label, name)) \in DOMAIN tab.m_symbols

\* the duplicate test of define comparing the names letter for letter
SymDefineOkExact(tab, name) ==
    getFullyQualifiedName(tab.m_current_global_label, name) \notin DOMAIN tab.m_symbols

\* define: the table after the call; unchanged when the qualified name exists
SymDefineOk(tab, name) == ~SymExists(tab, name)

SymDefine(tab, name, type, value, line) ==
    LET q == FoldCase(getFullyQualifiedName(tab.m_current_global_label, name)) IN
    IF q \in DOMAIN tab.m_symbols
    THEN tab
    ELSE [tab EXCEPT !.m_symbols = (q :> Symbol(name, type, value, line)) @@ @]

SymUpdate(tab, name, new_value) ==
    LET q == FoldCase(getFullyQualifiedName(tab.m_current_global_label, name)) IN
    IF q \in DOMAIN tab.m_symbols
    THEN [tab EXCEPT !.m_symbols[q].value = new_value]
    ELSE tab

lookupDirect(tab, name) ==
    LET q == FoldCase(name) IN
    IF q \in DOMAIN tab.m_symbols THEN tab.m_symbols[q] ELSE NoSymbol

lookup(tab, name) ==
    lookupDirect(tab, getFullyQualifiedName(tab.m_current_global_label, name))

setGlobalScope(tab, global_label) ==
    [tab EXCEPT !.m_current_global_label = global_label]

EmptySymbolTable == [m_symbols |-> <<>>, m_current_global_label |-> <<>>]

\* ------------------------------------------------------------------ AST
REG(name, size, code, is_segment) ==
    [op |-> "reg", name |-> name, size |-> size, code |-> code, is_segment |-> is_segment]

IMM(value, size_hint) ==
    [op |-> "imm", value |-> value, size_hint |-> size_hint,
     has_label |-> FALSE, label_name |-> <<>>]

\* ImmediateOperand(std::string label, ...): value 0, has_label
IMMLABEL(label, size_hint) ==
    [op |-> "imm", value |-> 0, size_hint |-> size_hint,
     has_label |-> TRUE, label_name |-> label]

\* one top-level term of the text between [ and ]
TOKREG(r) == [tok |-> "reg", reg |-> r, num |-> 0, id |-> <<>>, neg |-> FALSE]
TOKNUM(n, neg) == [tok |-> "num", reg |-> "", num |-> n, id |-> <<>>, neg |-> neg]
TOKID(name, neg) == [tok |-> "id", reg |-> "", num |-> 0, id |-> name, neg |-> neg]

NoAddress ==
    [parsed |-> FALSE, registers |-> <<>>, displacement |-> 0,
     has_displacement |-> FALSE, label_name |-> <<>>, has_label |-> FALSE]

MEM(address_expr, size_hint, segment_override) ==
    [op |-> "mem", address_expr |-> address_expr, parsed_address |-> NoAddress,
     is_direct_address |-> FALSE, direct_address_value |-> 0,
     size_hint |-> size_hint, segment_override |-> segment_override]

LABELREF(label, jump_type) ==
    [op |-> "label", label |-> label, jump_type |-> jump_type]

Label(name) == [kind |-> "Label", name |-> name]

Instruction(mnemonic, operands) ==
    [kind |-> "Instruction", mnemonic |-> mnemonic, operands |-> operands,
     assigned_address |-> 0, estimated_size |-> 0]

NUMBER(n) == [type |-> "NUMBER", number_value |-> n, string_value |-> <<>>]
SYMBOL(name) == [type |-> "SYMBOL", number_value |-> 0, string_value |-> name]
STRINGV(s) == [type |-> "STRING", number_value |-> 0, string_value |-> s]
CHARACTER(s) == [type |-> "CHARACTER", number_value |-> 0, string_value |-> s]

DataDirective(size, values) == [kind |-> "Data", size |-> size, values |-> values]
EQUDirective(name, value) == [kind |-> "EQU", name |-> name, value |-> value]
ORGDirective(address) == [kind |-> "ORG", address |-> address]
SEGMENTDirective(name) == [kind |-> "SEGMENT", name |-> name]
ENDSDirective(name) == [kind |-> "ENDS", name |-> name]
RESDirective(size, count) == [kind |-> "RES", size |-> size, count |-> count]
\* count = -1 when the count is an identifier (count_expr) still to resolve
TIMESDirective(count, count_expr, repeated_node) ==
    [kind |-> "TIMES", count |-> count, count_expr |-> count_expr,
     repeated_node |-> repeated_node]

ElementSize(size) ==
    CASE size = "BYTE" -> 1 [] size = "WORD" -> 2 [] size = "DWORD" -> 4
      [] size = "QWORD" -> 8 [] size = "TBYTE" -> 10

\* ------------------------------------------------------------------ diagnostics
Error(message, line, severity) ==
    [message |-> message, line |-> line, severity |-> severity]

\* Error::isError
isError(e) == e.severity = "ERROR" \/ e.severity = "FATAL"

\* SemanticAnalyzer::error: every analyzer diagnostic is pushed with severity ERROR
SemError(a, message, line) ==
    [a EXCEPT !.m_errors = Append(@, Error(message, line, "ERROR"))]

\* ------------------------------------------------------------------ semantic analyzer
SemanticAnalyzerInit ==
    [m_current_address |-> 0, m_segment_start_address |-> 0, m_origin_address |-> 0,
     m_last_was_terminator |-> FALSE, m_segments |-> <<>>, m_current_segment |-> <<>>,
     m_errors |-> <<>>, m_addresses |-> <<>>]

setOrigin(a, address) ==
    [a EXCEPT !.m_origin_address = address, !.m_current_address = address,
              !.m_segment_start_address = address]

isCodeSegment(name) ==
    FoldCase(name) \in
        { <<".", "t", "e", "x", "t">>, <<"t", "e", "x", "t">>,
          <<".", "c", "o", "d", "e">>, <<"c", "o", "d", "e">>,
          <<"_", "t", "e", "x", "t">>, <<"_", "c", "o", "d", "e">> }

isDataSegment(name) ==
    FoldCase(name) \in
        { <<".", "d", "a", "t", "a">>, <<"d", "a", "t", "a">>,
          <<".", "b", "s", "s">>, <<"b", "s", "s">>,
          <<".", "r", "o", "d", "a", "t", "a">>, <<"r", "o", "d", "a", "t", "a">>,
          <<"_", "d", "a", "t", "a">>, <<"_", "b", "s", "s">> }

FallThroughMessage == "Warning: Code segment may fall through into data segment"

enterSegment(a, name) ==
    LET warned ==
            IF /\ Len(a.m_current_segment) > 0
               /\ isCodeSegment(a.m_current_segment)
               /\ isDataSegment(name)
               /\ ~a.m_last_was_terminator
            THEN SemError(a, FallThroughMessage, 0)
            ELSE a
        reset == [warned EXCEPT !.m_last_was_terminator = FALSE]
        known == {k \in DOMAIN a.m_segments : a.m_segments[k].name = name}
    IN  IF known # {}
        THEN LET seg == a.m_segments[CHOOSE k \in known : \A j \in known : k <= j] IN
             [reset EXCEPT !.m_current_segment = name,
                           !.m_current_address = seg.current_address,
                           !.m_segment_start_address = seg.start_address]
        ELSE [reset EXCEPT
                !.m_segments = Append(@, [name |-> name,
                                          start_address |-> a.m_current_address,
                                          current_address |-> a.m_current_address]),
                !.m_current_segment = name,
                !.m_segment_start_address = a.m_current_address]

exitSegment(a, name) ==
    LET hit == {k \in DOMAIN a.m_segments :
                    \/ a.m_segments[k].name = name
                    \/ (Len(name) = 0 /\ a.m_segments[k].name = a.m_current_segment)}
    IN  IF hit = {} THEN a
        ELSE LET k == CHOOSE k \in hit : \A j \in hit : k <= j IN
             [a EXCEPT !.m_segments[k].current_address = a.m_current_address]

\* resolveSymbol: [ok, value, a] - the lookup, and the error pushed when it fails
resolveSymbol(a, tab, name, line) ==
    LET symbol == lookup(tab, name) IN
    IF ~symbol.found
    THEN [ok |-> FALSE, value |-> 0, a |-> SemError(a, "Undefined symbol", line)]
    ELSE IF ~symbol.is_resolved
    THEN [ok |-> FALSE, value |-> 0, a |-> SemError(a, "Symbol is not yet resolved", line)]
    ELSE [ok |-> TRUE, value |-> symbol.value, a |-> a]

\* resolveDataSymbols: values converted left to right, stopping at the first failure
RECURSIVE resolveDataSymbolsFrom(_, _, _, _, _)
resolveDataSymbolsFrom(a, tab, values, line, k) ==
    IF k > Len(values) THEN [ok |-> TRUE, values |-> values, a |-> a]
    ELSE IF values[k].type = "SYMBOL"
    THEN LET r == resolveSymbol(a, tab, values[k].string_value, line) IN
         IF ~r.ok THEN [ok |-> FALSE, values |-> values, a |-> r.a]
         ELSE resolveDataSymbolsFrom(a, tab,
                  [values EXCEPT ![k] = [type |-> "NUMBER", number_value |-> r.value,
                                         string_value |-> values[k].string_value]],
                  line, k + 1)
    ELSE resolveDataSymbolsFrom(a, tab, values, line, k + 1)

resolveDataSymbols(a, tab, data, line) ==
    resolveDataSymbolsFrom(a, tab, data.values, line, 1)

\* the size loop of pass1 over a data directive's values
RECURSIVE DataValuesSize(_, _)
DataValuesSize(values, element_size) ==
    IF values = <<>> THEN 0
    ELSE LET value == Head(values) IN
         (CASE value.type = "STRING" -> Len(value.string_value)
            [] value.type = "CHARACTER" -> 1
            [] OTHER -> element_size)
         + DataValuesSize(Tail(values), element_size)

\* createSymbolLookup: the value of a symbol that is found and resolved
SymbolLookup(tab, name) ==
    LET symbol == lookup(tab, name) IN
    IF symbol.found /\ symbol.is_resolved
    THEN [found |-> TRUE, value |-> symbol.value]
    ELSE [found |-> FALSE, value |-> 0]

\* ExpressionParser::parseAddressWithSymbols over the top-level terms of [...]
RECURSIVE parseAddressTokens(_, _, _)
parseAddressTokens(tokens, tab, acc) ==
    IF tokens = <<>> THEN acc
    ELSE LET t == Head(tokens)
             rest == Tail(tokens)
         IN  CASE t.tok = "reg" ->
                    IF t.neg THEN NoAddress
                    ELSE parseAddressTokens(rest, tab,
                            [acc EXCEPT !.registers = Append(@, t.reg)])
               [] t.tok = "id" ->
                    LET resolved == SymbolLookup(tab, t.id) IN
                    IF resolved.found
                    THEN parseAddressTokens(rest, tab,
                            [acc EXCEPT
                               !.displacement = @ + (IF t.neg THEN 0 - resolved.value
                                                     ELSE resolved.value),
                               !.has_displacement = TRUE])
                    ELSE IF acc.has_label THEN NoAddress
                    ELSE parseAddressTokens(rest, tab,
                            [acc EXCEPT !.label_name = t.id, !.has_label = TRUE])
               [] OTHER ->
                    parseAddressTokens(rest, tab,
                        [acc EXCEPT
                           !.displacement = @ + (IF t.neg THEN 0 - t.num ELSE t.num),
                           !.has_displacement = TRUE])

parseAddressWithSymbols(address_expr, tab) ==
    parseAddressTokens(address_expr, tab, [NoAddress EXCEPT !.parsed = TRUE])

\* static_cast<uint16_t>
U16(v) == v % 65536

\* resolveMemoryOperands: [ok, operands, a]
RECURSIVE resolveMemoryOperandsFrom(_, _, _, _, _)
resolveMemoryOperandsFrom(a, tab, operands, line, k) ==
    IF k > Len(operands) THEN [ok |-> TRUE, operands |-> operands, a |-> a]
    ELSE IF operands[k].op = "mem"
    THEN LET parsed == parseAddressWithSymbols(operands[k].address_expr, tab) IN
         IF ~parsed.parsed
         THEN [ok |-> FALSE, operands |-> operands,
               a |-> SemError(a, "Invalid memory operand", line)]
         ELSE LET direct == parsed.registers = <<>> /\ ~parsed.has_label
                  mem == [operands[k] EXCEPT
                            !.parsed_address = parsed,
                            !.is_direct_address = IF direct THEN TRUE ELSE @,
                            !.direct_address_value =
                                IF direct THEN U16(parsed.displacement) ELSE @]
              IN  resolveMemoryOperandsFrom(a, tab, [operands EXCEPT ![k] = mem],
                                            line, k + 1)
    ELSE resolveMemoryOperandsFrom(a, tab, operands, line, k + 1)

resolveMemoryOperands(a, tab, instr, line) ==
    resolveMemoryOperandsFrom(a, tab, instr.operands, line, 1)

calculateMemoryEncodingSize(mem) ==
    IF mem.is_direct_address THEN 3
    ELSE IF mem.parsed_address.parsed
    THEN LET addr == mem.parsed_address IN
         IF addr.registers = <<>> THEN 3
         ELSE IF ~addr.has_displacement /\ ~addr.has_label
         THEN (IF Len(addr.registers) = 1 /\ addr.registers[1] = "BP" THEN 2 ELSE 1)
         ELSE IF addr.has_label THEN 3
         ELSE IF addr.displacement >= -128 /\ addr.displacement <= 127 THEN 2
         ELSE 3
    ELSE 3


\* ------------------------------------------------------------------ instruction sizes
OneByteMnemonics ==
    { "MOVSB", "MOVSW", "CMPSB", "CMPSW", "SCASB", "SCASW", "LODSB", "LODSW",
      "STOSB", "STOSW", "NOP", "HLT", "RET", "RETF", "IRET", "PUSHA", "POPA",
      "PUSHF", "POPF", "CLC", "STC", "CMC", "CLD", "STD", "CLI", "STI", "CBW",
      "CWD", "LAHF", "SAHF", "AAA", "AAS", "AAM", "AAD", "DAA", "DAS", "XLAT",
      "WAIT", "LOCK", "INT3", "INTO", "REP", "REPE", "REPZ", "REPNE", "REPNZ" }

ConditionalJumps ==
    { "JE", "JNE", "JZ", "JNZ", "JL", "JLE", "JG", "JGE", "JNL", "JNLE", "JNG",
      "JNGE", "JA", "JAE", "JB", "JBE", "JNA", "JNAE", "JNB", "JNBE", "JC", "JNC",
      "JO", "JNO", "JS", "JNS", "JP", "JPE", "JNP", "JPO",
      "LOOP", "LOOPE", "LOOPZ", "LOOPNE", "LOOPNZ", "JCXZ" }

IsOp(operands, k, op) == Len(operands) >= k /\ operands[k].op = op

SegPrefix(mem) == IF mem.segment_override # "" THEN 1 ELSE 0

SizeJmpCall(mnemonic, ops) ==
    IF Len(ops) = 1
    THEN IF ops[1].op = "label"
         THEN IF mnemonic = "CALL" THEN 3
              ELSE IF ops[1].jump_type = "SHORT" THEN 2 ELSE 3
         ELSE 3
    ELSE 2

SizeMov(ops) ==
    LET dest_reg == ops[1].op = "reg"
        src_reg == ops[2].op = "reg"
        dest_mem == ops[1].op = "mem"
        src_mem == ops[2].op = "mem"
        imm == ops[2].op = "imm"
        mem == IF dest_mem THEN ops[1] ELSE ops[2]
    IN  IF dest_reg /\ imm THEN (IF ops[1].size = 16 THEN 3 ELSE 2)
        ELSE IF dest_reg /\ src_reg THEN 2
        ELSE IF dest_mem \/ src_mem
        THEN IF dest_mem /\ imm
             THEN SegPrefix(mem) + 1 + calculateMemoryEncodingSize(ops[1])
                  + (IF ops[1].size_hint = 16
                        \/ (ops[1].size_hint = 0 /\ ops[2].value > 255)
                     THEN 2 ELSE 1)
             ELSE IF /\ \/ (dest_reg /\ ops[1].code = 0 /\ src_mem)
                        \/ (src_reg /\ ops[2].code = 0 /\ dest_mem)
                     /\ \/ mem.is_direct_address
                        \/ (mem.parsed_address.parsed /\ mem.parsed_address.registers = <<>>)
             THEN SegPrefix(mem) + 3
             ELSE SegPrefix(mem) + 1 + calculateMemoryEncodingSize(mem)
        ELSE -1

SizePushPop(ops) == IF ops[1].op = "reg" THEN 1 ELSE 2

SizeIncDec(ops) ==
    IF ops[1].op = "reg" /\ ops[1].size = 16 THEN 1
    ELSE IF ops[1].op = "mem"
    THEN SegPrefix(ops[1]) + 1 + calculateMemoryEncodingSize(ops[1])
    ELSE 2

SizeArith(ops) ==
    LET reg == ops[1].op = "reg"
        imm == ops[2].op = "imm"
    IN  IF reg /\ ops[1].code = 0 /\ imm THEN (IF ops[1].size = 16 THEN 3 ELSE 2)
        ELSE IF imm
        THEN IF ops[1].op = "mem"
             THEN SegPrefix(ops[1]) + 1 + calculateMemoryEncodingSize(ops[1])
                  + (IF ops[1].size_hint = 16 THEN 2 ELSE 1)
             ELSE IF reg /\ ops[1].size = 16
             THEN (IF ops[2].size_hint = 8 THEN 3 ELSE 4)
             ELSE 3
        ELSE IF reg /\ ops[2].op = "reg" THEN 2
        ELSE IF ops[1].op = "mem" \/ ops[2].op = "mem"
        THEN LET mem == IF ops[1].op = "mem" THEN ops[1] ELSE ops[2] IN
             SegPrefix(mem) + 1 + calculateMemoryEncodingSize(mem)
        ELSE 4

SizeTest(ops) ==
    LET reg == ops[1].op = "reg"
        imm == ops[2].op = "imm"
    IN  IF reg /\ ops[1].code = 0 /\ imm THEN (IF ops[1].size = 16 THEN 3 ELSE 2)
        ELSE IF imm THEN (IF reg /\ ops[1].size = 16 THEN 4 ELSE 3)
        ELSE 2

SizeLea(ops) ==
    IF Len(ops) >= 2 /\ ops[2].op = "mem"
    THEN SegPrefix(ops[2]) + 1 + calculateMemoryEncodingSize(ops[2])
    ELSE 4

SizeXchg(ops) ==
    IF \/ (ops[1].op = "reg" /\ ops[1].code = 0 /\ ops[1].size = 16)
       \/ (ops[2].op = "reg" /\ ops[2].code = 0 /\ ops[2].size = 16)
    THEN 1 ELSE 2

\* the if-chain of calculateInstructionSize, in source order; the first branch
\* that returns decides
calculateInstructionSize(instr) ==
    LET mnemonic == instr.mnemonic
        ops == instr.operands
        n == Len(ops)
    IN  IF n = 0 /\ mnemonic \in OneByteMnemonics THEN 1
        ELSE IF mnemonic \in {"RET", "RETF"} /\ n = 1 THEN 3
        ELSE IF mnemonic \in {"JMP", "CALL"} THEN SizeJmpCall(mnemonic, ops)
        ELSE IF mnemonic \in ConditionalJumps THEN 2
        ELSE IF mnemonic = "INT" /\ n = 1 THEN 2
        ELSE IF mnemonic \in {"IN", "OUT"} /\ n = 2
        THEN (IF ops[1].op = "imm" \/ ops[2].op = "imm" THEN 2 ELSE 1)
        ELSE IF mnemonic = "MOV" /\ n = 2 /\ SizeMov(ops) >= 0 THEN SizeMov(ops)
        ELSE IF mnemonic \in {"PUSH", "POP"} /\ n = 1 THEN SizePushPop(ops)
        ELSE IF mnemonic \in {"INC", "DEC"} /\ n = 1 THEN SizeIncDec(ops)
        ELSE IF mnemonic \in {"ADD", "ADC", "SUB", "SBB", "CMP", "AND", "OR", "XOR"}
                /\ n = 2
        THEN SizeArith(ops)
        ELSE IF mnemonic = "TEST" /\ n = 2 THEN SizeTest(ops)
        ELSE IF mnemonic \in {"ROL", "ROR", "RCL", "RCR", "SHL", "SHR", "SAL", "SAR"}
                /\ n \in {1, 2}
        THEN 2
        ELSE IF mnemonic \in {"NOT", "NEG", "MUL", "IMUL", "DIV", "IDIV"} THEN 2
        ELSE IF mnemonic \in {"LEA", "LDS", "LES"} THEN SizeLea(ops)
        ELSE IF mnemonic = "XCHG" /\ n = 2 THEN SizeXchg(ops)
        ELSE 3

\* the terminator test at the end of pass1's instruction branch
IsTerminator(instr) ==
    /\ instr.mnemonic \in {"HLT", "RET", "RETF", "IRET", "JMP", "INT"}
    /\ Len(instr.operands) >= 1

\* ------------------------------------------------------------------ encoding table
Row(mnemonic, operands, encoding_type, base_opcode, modrm_reg_field) ==
    [mnemonic |-> mnemonic, operands |-> operands, encoding_type |-> encoding_type,
     base_opcode |-> base_opcode, modrm_reg_field |-> modrm_reg_field]

\* the rows of INSTRUCTION_TABLE for the mnemonics the modelled programs use,
\* in table order (opcodes in decimal)
INSTRUCTION_TABLE ==
    << Row("MOV", <<"RM8", "REG8">>, "MODRM", 136, 0),
       Row("MOV", <<"RM16", "REG16">>, "MODRM", 137, 0),
       Row("MOV", <<"REG8", "RM8">>, "MODRM", 138, 0),
       Row("MOV", <<"REG16", "RM16">>, "MODRM", 139, 0),
       Row("MOV", <<"RM8", "IMM8">>, "MODRM_IMM", 198, 0),
       Row("MOV", <<"RM16", "IMM16">>, "MODRM_IMM", 199, 0),
       Row("MOV", <<"AL", "MEM8">>, "IMMEDIATE", 160, 0),
       Row("MOV", <<"AX", "MEM16">>, "IMMEDIATE", 161, 0),
       Row("MOV", <<"MEM8", "AL">>, "IMMEDIATE", 162, 0),
       Row("MOV", <<"MEM16", "AX">>, "IMMEDIATE", 163, 0),
       Row("MOV", <<"AL", "IMM8">>, "REG_IN_OPCODE", 176, 0),
       Row("MOV", <<"REG8", "IMM8">>, "REG_IN_OPCODE", 176, 0),
       Row("MOV", <<"AX", "IMM16">>, "REG_IN_OPCODE", 184, 0),
       Row("MOV", <<"REG16", "IMM16">>, "REG_IN_OPCODE", 184, 0),
       Row("MOV", <<"RM16", "SEGREG">>, "MODRM", 140, 0),
       Row("MOV", <<"SEGREG", "RM16">>, "MODRM", 142, 0),
       Row("JMP", <<"REL8">>, "RELATIVE", 235, 0),
       Row("JMP", <<"REL16">>, "RELATIVE", 233, 0),
       Row("JE", <<"REL8">>, "RELATIVE", 116, 0),
       Row("JNE", <<"REL8">>, "RELATIVE", 117, 0),
       Row("CALL", <<"REL16">>, "RELATIVE", 232, 0),
       Row("CALL", <<"RM16">>, "MODRM_IMM", 255, 2),
       Row("RET", <<>>, "FIXED", 195, 0),
       Row("RET", <<"IMM16">>, "IMMEDIATE", 194, 0),
       Row("LOOP", <<"REL8">>, "RELATIVE", 226, 0),
       Row("JCXZ", <<"REL8">>, "RELATIVE", 227, 0),
       Row("INT", <<"IMM8">>, "IMMEDIATE", 205, 0),
       Row("NOP", <<>>, "FIXED", 144, 0),
       Row("HLT", <<>>, "FIXED", 244, 0),
       Row("LEA", <<"REG16", "MEM16">>, "MODRM", 141, 0) >>

\* ------------------------------------------------------------------ operand matcher
matchesSpec(operand, spec) ==
    LET reg == operand.op = "reg"
        imm == operand.op = "imm"
        mem == operand.op = "mem"
        label == operand.op = "label"
    IN  CASE spec = "REG8" -> reg /\ operand.size = 8 /\ ~operand.is_segment
          [] spec = "REG16" -> reg /\ operand.size = 16 /\ ~operand.is_segment
          [] spec = "MEM8" -> mem /\ operand.is_direct_address
          [] spec = "MEM16" ->
                \/ label
                \/ mem /\ \/ operand.is_direct_address
                          \/ (operand.parsed_address.parsed
                              /\ operand.parsed_address.registers = <<>>)
          [] spec = "RM8" ->
                \/ mem /\ ~(operand.size_hint # 0 /\ operand.size_hint # 8)
                \/ reg /\ operand.size = 8 /\ ~operand.is_segment
          [] spec = "RM16" ->
                \/ mem /\ ~(operand.size_hint # 0 /\ operand.size_hint # 16)
                \/ reg /\ operand.size = 16 /\ ~operand.is_segment
          [] spec = "IMM8" ->
                /\ ~(imm /\ operand.size_hint = 16)
                /\ \/ imm /\ operand.value >= -128 /\ operand.value <= 255
                   \/ label
          [] spec = "IMM16" ->
                /\ ~(imm /\ operand.size_hint = 8)
                /\ \/ imm /\ operand.value >= -32768 /\ operand.value <= 65535
                   \/ label
          [] spec = "AL" -> reg /\ operand.size = 8 /\ operand.code = 0
          [] spec = "AX" -> reg /\ operand.size = 16 /\ operand.code = 0
                            /\ ~operand.is_segment
          [] spec = "SEGREG" -> reg /\ operand.is_segment
          [] spec = "CL" -> reg /\ operand.size = 8 /\ operand.code = 1
          [] spec = "DX" -> reg /\ operand.size = 16 /\ operand.code = 2
                            /\ ~operand.is_segment
          [] spec = "REL8" -> label /\ operand.jump_type = "SHORT"
          [] spec = "REL16" -> label /\ operand.jump_type \in {"NEAR", "FAR"}
          [] spec = "LABEL" -> label
          [] OTHER -> FALSE

SpecScore(spec) ==
    CASE spec \in {"AL", "AX", "CL", "DX"} -> 10
      [] spec \in {"REG8", "REG16", "SEGREG"} -> 5
      [] spec \in {"RM8", "RM16"} -> 3
      [] OTHER -> 1

RECURSIVE SumScores(_)
SumScores(specs) ==
    IF specs = <<>> THEN 0 ELSE SpecScore(Head(specs)) + SumScores(Tail(specs))

RowMatches(row, mnemonic, operands) ==
    /\ row.mnemonic = mnemonic
    /\ Len(row.operands) = Len(operands)
    /\ \A k \in 1..Len(operands) : matchesSpec(operands[k], row.operands[k])

\* findEncoding: index of the first row of highest specificity among the rows that
\* match (a later row replaces the best one only when strictly more specific); 0 if none
findEncoding(mnemonic, operands) ==
    LET hits == {r \in DOMAIN INSTRUCTION_TABLE :
                    RowMatches(INSTRUCTION_TABLE[r], mnemonic, operands)}
        score(r) == SumScores(INSTRUCTION_TABLE[r].operands)
    IN  IF hits = {} THEN 0
        ELSE CHOOSE r \in hits :
                \A q \in hits : score(q) < score(r) \/ (score(q) = score(r) /\ r <= q)

\* ------------------------------------------------------------------ bytes
\* little-endian, two's complement truncated to size_bytes (value >>= 8 floors)
RECURSIVE encodeBytes(_, _)
encodeBytes(value, size_bytes) ==
    IF size_bytes = 0 THEN <<>>
    ELSE <<value % 256>> \o encodeBytes(value \div 256, size_bytes - 1)

Encoded(bytes) == [success |-> TRUE, bytes |-> bytes, error |-> ""]
EncodeFailed(error) == [success |-> FALSE, bytes |-> <<>>, error |-> error]

\* ------------------------------------------------------------------ ModR/M generator
combineModRM(mod, reg, rm) == (mod % 4) * 64 + (reg % 8) * 8 + (rm % 8)

generateRegToReg(reg_field, rm_field) == combineModRM(3, reg_field, rm_field)

isMod1(displacement) == displacement >= -128 /\ displacement <= 127

calculateMod(displacement, has_displacement) ==
    IF ~has_displacement THEN 0
    ELSE IF isMod1(displacement) THEN 1
    ELSE 2

\* -1 stands for std::nullopt
calculateRM(registers) ==
    LET has(r) == \E k \in DOMAIN registers : registers[k] = r IN
    IF registers = <<>> THEN 6
    ELSE IF Len(registers) = 1
    THEN CASE registers[1] = "BX" -> 7 [] registers[1] = "SI" -> 4
           [] registers[1] = "DI" -> 5 [] registers[1] = "BP" -> 6
           [] OTHER -> -1
    ELSE IF Len(registers) = 2
    THEN IF has("BX") /\ has("SI") THEN 0
         ELSE IF has("BX") /\ has("DI") THEN 1
         ELSE IF has("BP") /\ has("SI") THEN 2
         ELSE IF has("BP") /\ has("DI") THEN 3
         ELSE -1
    ELSE -1

generateDirect(address, reg_field) ==
    Encoded(<<combineModRM(0, reg_field, 6)>> \o encodeBytes(address, 2))

\* generateMemory without the special case for [BP]
generateMemoryPlain(addr_expr, reg_field, tab) ==
    LET symbol == lookup(tab, addr_expr.label_name)
        total_displacement ==
            addr_expr.displacement + (IF addr_expr.has_label THEN symbol.value ELSE 0)
        has_disp == addr_expr.has_displacement \/ addr_expr.has_label
        rm_code == calculateRM(addr_expr.registers)
        mod == calculateMod(total_displacement, has_disp)
    IN  IF addr_expr.has_label /\ (~symbol.found \/ ~symbol.is_resolved)
        THEN EncodeFailed("Undefined label")
        ELSE IF rm_code < 0 THEN EncodeFailed("Invalid addressing mode combination")
        ELSE IF addr_expr.registers = <<>> /\ (has_disp \/ addr_expr.has_label)
        THEN Encoded(<<combineModRM(0, reg_field, 6)>> \o encodeBytes(total_displacement, 2))
        ELSE Encoded(<<combineModRM(mod, reg_field, rm_code)>>
                     \o (CASE mod = 1 -> encodeBytes(total_displacement, 1)
                           [] mod = 2 -> encodeBytes(total_displacement, 2)
                           [] OTHER -> <<>>))

\* generateMemory: the label is looked up with SymbolTable::lookup (no direct fallback)
generateMemory(addr_expr, reg_field, tab) ==
    LET symbol == lookup(tab, addr_expr.label_name)
        total_displacement ==
            addr_expr.displacement + (IF addr_expr.has_label THEN symbol.value ELSE 0)
        has_disp == addr_expr.has_displacement \/ addr_expr.has_label
        rm_code == calculateRM(addr_expr.registers)
        mod == calculateMod(total_displacement, has_disp)
    IN  IF addr_expr.has_label /\ (~symbol.found \/ ~symbol.is_resolved)
        THEN EncodeFailed("Undefined label")
        ELSE IF rm_code < 0 THEN EncodeFailed("Invalid addressing mode combination")
        ELSE IF addr_expr.registers = <<>> /\ (has_disp \/ addr_expr.has_label)
        THEN Encoded(<<combineModRM(0, reg_field, 6)>> \o encodeBytes(total_displacement, 2))
        ELSE IF Len(addr_expr.registers) = 1 /\ addr_expr.registers[1] = "BP" /\ ~has_disp
        THEN Encoded(<<combineModRM(1, reg_field, rm_code), 0>>)
        ELSE Encoded(<<combineModRM(mod, reg_field, rm_code)>>
                     \o (CASE mod = 1 -> encodeBytes(total_displacement, 1)
                           [] mod = 2 -> encodeBytes(total_displacement, 2)
                           [] OTHER -> <<>>))

\* ------------------------------------------------------------------ expressions
DIGITS == <<"0", "1", "2", "3", "4", "5", "6", "7", "8", "9">>

\* the value of one character as a digit; 99 for a character that is no digit
DigitValue(c) ==
    IF \E i \in DOMAIN DIGITS : DIGITS[i] = c
    THEN (CHOOSE i \in DOMAIN DIGITS : DIGITS[i] = c) - 1
    ELSE IF \E i \in 1..26 : LOWERCASE[i] = Lower(c)
    THEN (CHOOSE i \in 1..26 : LOWERCASE[i] = Lower(c)) + 9
    ELSE 99

\* std::isalnum(c) || c == '_'
IsWordChar(c) == DigitValue(c) < 99 \/ c = "_"

NoValue == [ok |-> FALSE, value |-> 0]
Value(n) == [ok |-> TRUE, value |-> n]

RECURSIVE DigitsValue(_, _)
DigitsValue(digits, base) ==
    IF digits = <<>> THEN 0
    ELSE DigitsValue(SubSeq(digits, 1, Len(digits) - 1), base) * base
         + DigitValue(digits[Len(digits)])

\* std::stoll(str, nullptr, base): an optional sign, for base 16 an optional 0x,
\* then the longest run of digits of the base; the text after the run is ignored,
\* and only a text without any digit throws
stoll(str, base) ==
    LET signed == str # <<>> /\ str[1] \in {"+", "-"}
        unsigned == IF signed THEN Tail(str) ELSE str
        prefixed == /\ base = 16 /\ Len(unsigned) >= 3
                    /\ unsigned[1] = "0" /\ unsigned[2] \in {"x", "X"}
                    /\ DigitValue(unsigned[3]) < 16
        body == IF prefixed THEN SubSeq(unsigned, 3, Len(unsigned)) ELSE unsigned
        run == CHOOSE k \in 0..Len(body) :
                   /\ \A i \in 1..k : DigitValue(body[i]) < base
                   /\ k < Len(body) => DigitValue(body[k + 1]) >= base
        magnitude == DigitsValue(SubSeq(body, 1, run), base)
    IN  IF run = 0 THEN NoValue
        ELSE Value(IF signed /\ str[1] = "-" THEN 0 - magnitude ELSE magnitude)

Negated(v, is_negative) ==
    IF v.ok /\ is_negative THEN Value(0 - v.value) ELSE v

parseNumber(str) ==
    LET is_negative == str # <<>> /\ str[1] = "-"
        s == IF is_negative THEN Tail(str) ELSE str
        n == Len(s)
    IN  IF str = <<>> THEN NoValue
        ELSE IF n >= 2 /\ s[1] = "0" /\ s[2] \in {"x", "X"}
        THEN Negated(stoll(SubSeq(s, 3, n), 16), is_negative)
        ELSE IF n >= 2 /\ s[n] \in {"h", "H"}
        THEN Negated(stoll(SubSeq(s, 1, n - 1), 16), is_negative)
        ELSE IF n >= 2 /\ s[1] = "0" /\ s[2] \in {"b", "B"}
        THEN Negated(stoll(SubSeq(s, 3, n), 2), is_negative)
        ELSE IF n >= 2 /\ s[n] \in {"b", "B"}
        THEN Negated(stoll(SubSeq(s, 1, n - 1), 2), is_negative)
        ELSE IF n >= 2 /\ s[1] = "0" /\ s[2] \in {"o", "O"}
        THEN Negated(stoll(SubSeq(s, 3, n), 8), is_negative)
        ELSE Negated(stoll(s, 10), is_negative)

\* the quotient of C++, rounded towards zero
Quotient(a, b) ==
    IF (a >= 0) = (b >= 0)
    THEN (IF a >= 0 THEN a ELSE 0 - a) \div (IF b >= 0 THEN b ELSE 0 - b)
    ELSE 0 - ((IF a >= 0 THEN a ELSE 0 - a) \div (IF b >= 0 THEN b ELSE 0 - b))

Arithmetic(op, left, right) ==
    IF ~left.ok \/ ~right.ok THEN NoValue
    ELSE CASE op = "+" -> Value(left.value + right.value)
           [] op = "-" -> Value(left.value - right.value)
           [] op = "*" -> Value(left.value * right.value)
           [] op = "/" -> IF right.value = 0 THEN NoValue
                          ELSE Value(Quotient(left.value, right.value))

\* the places where evaluateArithmetic may split for + and - : not the first
\* character, and no minus that follows an operator or an opening parenthesis
AdditivePlaces(clean) ==
    { i \in 2..Len(clean) :
        /\ clean[i] \in {"+", "-"}
        /\ ~(clean[i] = "-" /\ clean[i - 1] \in {"+", "-", "*", "/", "("}) }

MultiplicativePlaces(clean) == { i \in 1..Len(clean) : clean[i] \in {"*", "/"} }

Last(places) == CHOOSE i \in places : \A j \in places : j <= i

RECURSIVE evaluateArithmetic(_)
SplitAt(clean, i) ==
    Arithmetic(clean[i], evaluateArithmetic(SubSeq(clean, 1, i - 1)),
               evaluateArithmetic(SubSeq(clean, i + 1, Len(clean))))

evaluateClean(clean) ==
    IF clean = <<>> THEN NoValue
    ELSE IF AdditivePlaces(clean) # {} THEN SplitAt(clean, Last(AdditivePlaces(clean)))
    ELSE IF MultiplicativePlaces(clean) # {}
    THEN SplitAt(clean, Last(MultiplicativePlaces(clean)))
    ELSE IF clean[1] = "(" /\ clean[Len(clean)] = ")"
    THEN evaluateArithmetic(SubSeq(clean, 2, Len(clean) - 1))
    ELSE parseNumber(clean)

evaluateArithmetic(expr) ==
    evaluateClean(SelectSeq(expr, LAMBDA c : c # " "))

\* ExpressionParser::evaluate
evaluate(expr) == evaluateArithmetic(expr)

\* std::to_string
RECURSIVE to_string(_)
to_string(n) ==
    IF n < 0 THEN <<"-">> \o to_string(0 - n)
    ELSE IF n < 10 THEN <<DIGITS[n + 1]>>
    ELSE to_string(n \div 10) \o <<DIGITS[(n % 10) + 1]>>

\* the length of the run of word characters that starts at the head of text
WordLength(text) ==
    CHOOSE k \in 0..Len(text) :
        /\ \A i \in 1..k : IsWordChar(text[i])
        /\ k < Len(text) => ~IsWordChar(text[k + 1])

\* the resolved constants whose key is spelled as the word (the key of a name
\* without a leading dot is the name as its definition wrote it)
ConstantsNamed(tab, word) ==
    { q \in DOMAIN tab.m_symbols :
        /\ tab.m_symbols[q].type = "CONSTANT"
        /\ tab.m_symbols[q].is_resolved
        /\ tab.m_symbols[q].name = word }

SubstituteWord(tab, word) ==
    IF ConstantsNamed(tab, word) # {}
    THEN to_string(tab.m_symbols[CHOOSE q \in ConstantsNamed(tab, word) : TRUE].value)
    ELSE word

\* the substitution loop of evaluateExpression: every whole word that spells a
\* constant is replaced by the digits of its value
RECURSIVE Substituted(_, _)
SubstitutedFrom(text, tab, k) ==
    IF k = 0 THEN <<text[1]>> \o Substituted(Tail(text), tab)
    ELSE SubstituteWord(tab, SubSeq(text, 1, k))
         \o Substituted(SubSeq(text, k + 1, Len(text)), tab)

Substituted(text, tab) ==
    IF text = <<>> THEN <<>> ELSE SubstitutedFrom(text, tab, WordLength(text))

evaluateExpression(expr, tab) == evaluate(Substituted(expr, tab))

\* label_name.find('+') != npos || find('-') || find('*') || find('/')
is_expression(label_name) ==
    \E i \in DOMAIN label_name : label_name[i] \in {"+", "-", "*", "/"}

\* ------------------------------------------------------------------ instruction encoder
\* lookupLabel: scoped lookup, then an unscoped lookup of the raw name for names
\* that start with a dot
lookupLabel(tab, label_name) ==
    LET symbol == lookup(tab, label_name) IN
    IF ~symbol.found /\ label_name # <<>> /\ label_name[1] = DOT
    THEN lookupDirect(tab, label_name)
    ELSE symbol

\* -1 stands for std::nullopt; the model writes segment names in upper case
getSegmentOverridePrefix(segment) ==
    CASE segment = "ES" -> 38 [] segment = "CS" -> 46
      [] segment = "SS" -> 54 [] segment = "DS" -> 62
      [] OTHER -> -1

PrefixBytes(mem) ==
    IF mem.segment_override # "" /\ getSegmentOverridePrefix(mem.segment_override) >= 0
    THEN <<getSegmentOverridePrefix(mem.segment_override)>>
    ELSE <<>>

\* the value of an immediate operand that is a number or names one label
ImmediateValue(imm, tab) ==
    LET symbol == lookupLabel(tab, imm.label_name) IN
    IF ~imm.has_label THEN [ok |-> TRUE, value |-> imm.value, error |-> ""]
    ELSE IF ~symbol.found \/ ~symbol.is_resolved
    THEN [ok |-> FALSE, value |-> 0, error |-> "Undefined label"]
    ELSE [ok |-> TRUE, value |-> symbol.value, error |-> ""]

Evaluated(eval_result) ==
    [ok |-> eval_result.ok, value |-> eval_result.value, error |-> "Invalid expression"]

\* the same where the encoder first tests the text for + - * / and evaluates it
ExpressionValue(imm, tab) ==
    IF imm.has_label /\ is_expression(imm.label_name)
    THEN Evaluated(evaluateExpression(imm.label_name, tab))
    ELSE ImmediateValue(imm, tab)

\* the ModR/M bytes of a memory operand
MemoryModRM(mem, reg_field, tab) ==
    IF mem.is_direct_address THEN generateDirect(mem.direct_address_value, reg_field)
    ELSE IF mem.parsed_address.parsed
    THEN generateMemory(mem.parsed_address, reg_field, tab)
    ELSE EncodeFailed("Invalid memory operand")

Prepend(bytes, modrm) ==
    IF modrm.success THEN Encoded(bytes \o modrm.bytes) ELSE modrm

encodeModRM(encoding, instr, tab) ==
    LET dst == instr.operands[1]
        src == instr.operands[2]
        mem_present == dst.op = "mem" \/ src.op = "mem"
        mem_op == IF dst.op = "mem" THEN dst ELSE src
        bytes == (IF mem_present THEN PrefixBytes(mem_op) ELSE <<>>)
                 \o <<encoding.base_opcode>>
        symbol == lookupLabel(tab, src.label)
    IN  IF dst.op = "reg" /\ src.op = "reg"
        THEN Encoded(bytes \o <<generateRegToReg(src.code, dst.code)>>)
        ELSE IF dst.op = "reg" /\ src.op = "label"
        THEN IF ~symbol.found \/ ~symbol.is_resolved
             THEN EncodeFailed("Undefined label")
             ELSE Prepend(bytes, generateDirect(symbol.value, dst.code))
        ELSE IF dst.op = "mem" /\ src.op = "reg"
        THEN Prepend(bytes, MemoryModRM(dst, src.code, tab))
        ELSE IF dst.op = "reg" /\ src.op = "mem"
        THEN Prepend(bytes, MemoryModRM(src, dst.code, tab))
        ELSE EncodeFailed("Invalid operand combination for ModRM")

encodeRegInOpcode(encoding, instr, tab) ==
    LET reg == instr.operands[1]
        second == instr.operands[2]
        imm_size == IF reg.size = 8 THEN 1 ELSE 2
        v == ExpressionValue(second, tab)
        symbol == lookupLabel(tab, second.label)
    IN  IF reg.op # "reg" THEN EncodeFailed("Expected register operand")
        ELSE IF Len(instr.operands) <= 1
        THEN Encoded(<<(encoding.base_opcode + reg.code) % 256>>)
        ELSE IF second.op = "reg"
        THEN Encoded(<<(encoding.base_opcode + second.code) % 256>>)
        ELSE IF second.op = "imm"
        THEN IF ~v.ok THEN EncodeFailed(v.error)
             ELSE Encoded(<<(encoding.base_opcode + reg.code) % 256>>
                          \o encodeBytes(v.value, imm_size))
        ELSE IF second.op = "label"
        THEN IF ~symbol.found \/ ~symbol.is_resolved
             THEN EncodeFailed("Undefined label")
             ELSE Encoded(<<(encoding.base_opcode + reg.code) % 256>>
                          \o encodeBytes(symbol.value, imm_size))
        ELSE EncodeFailed("Expected immediate operand or label reference")

\* the 16-bit address of a memory operand without registers; ok = FALSE when the
\* operand is not such an operand, undefined when its label is not resolved
DirectAddress(mem, tab) ==
    LET addr == mem.parsed_address
        symbol == lookupLabel(tab, addr.label_name)
    IN  IF mem.is_direct_address
        THEN [ok |-> TRUE, undefined |-> FALSE, value |-> mem.direct_address_value]
        ELSE IF addr.parsed /\ addr.registers = <<>>
        THEN IF addr.has_label /\ (~symbol.found \/ ~symbol.is_resolved)
             THEN [ok |-> FALSE, undefined |-> TRUE, value |-> 0]
             ELSE [ok |-> TRUE, undefined |-> FALSE,
                   value |-> addr.displacement
                             + (IF addr.has_label THEN symbol.value ELSE 0)]
        ELSE [ok |-> FALSE, undefined |-> FALSE, value |-> 0]

encodeImmediate(encoding, instr, tab) ==
    LET n == Len(instr.operands)
        first == instr.operands[1]
        second == instr.operands[2]
        opcode == <<encoding.base_opcode>>
        size(k) == IF encoding.operands[k] = "IMM8" THEN 1 ELSE 2
        WithValue(v, k) ==
            IF ~v.ok THEN EncodeFailed(v.error)
            ELSE Encoded(opcode \o encodeBytes(v.value, size(k)))
        WithImmediate(imm, k) == WithValue(ImmediateValue(imm, tab), k)
        WithAddress(mem) ==
            LET a == DirectAddress(mem, tab) IN
            IF a.ok THEN Encoded(opcode \o encodeBytes(a.value, 2))
            ELSE IF a.undefined THEN EncodeFailed("Undefined label")
            ELSE EncodeFailed("Expected immediate operand or direct address")
    IN  IF n = 0 THEN Encoded(opcode)
        ELSE IF n = 1
        THEN IF first.op = "imm" THEN WithValue(ExpressionValue(first, tab), 1)
             ELSE EncodeFailed("Expected immediate operand or direct address")
        ELSE IF first.op = "imm" THEN WithImmediate(first, 1)
        ELSE IF first.op = "mem" THEN WithAddress(first)
        ELSE IF second.op = "imm" THEN WithImmediate(second, 2)
        ELSE IF second.op = "mem" THEN WithAddress(second)
        ELSE EncodeFailed("Expected immediate operand or direct address")

encodeModRMImm(encoding, instr, tab) ==
    LET dst == instr.operands[1]
        second == instr.operands[2]
        head == IF dst.op = "reg"
                THEN Encoded(<<encoding.base_opcode,
                               generateRegToReg(encoding.modrm_reg_field, dst.code)>>)
                ELSE IF dst.op = "mem"
                THEN Prepend(PrefixBytes(dst) \o <<encoding.base_opcode>>,
                             MemoryModRM(dst, encoding.modrm_reg_field, tab))
                ELSE EncodeFailed("Invalid destination operand")
        v == ExpressionValue(second, tab)
        imm_size == IF encoding.operands[2] = "IMM8" THEN 1 ELSE 2
    IN  IF ~head.success \/ Len(instr.operands) <= 1 THEN head
        ELSE IF second.op # "imm"
        THEN IF second.op = "reg" /\ second.code = 1 /\ second.size = 8
             THEN head
             ELSE EncodeFailed("Expected immediate operand")
        ELSE IF ~v.ok THEN EncodeFailed(v.error)
        ELSE IF encoding.base_opcode \in {208, 209} /\ v.value = 1 THEN head
        ELSE Encoded(head.bytes \o encodeBytes(v.value, imm_size))

\* encodeRelative with the SHORT range taken as -127..127
encodeRelativeSymmetric(encoding, instr, tab, m_current_address) ==
    LET label_ref == instr.operands[1]
        symbol == lookupLabel(tab, label_ref.label)
        disp_size == IF encoding.operands[1] = "REL8" THEN 1 ELSE 2
        displacement == symbol.value - (m_current_address + 1 + disp_size)
    IN  IF label_ref.op # "label" THEN EncodeFailed("Expected label operand for jump")
        ELSE IF ~symbol.found THEN EncodeFailed("Undefined label")
        ELSE IF disp_size = 1 /\ (displacement < -127 \/ displacement > 127)
        THEN IF instr.mnemonic = "JMP"
             THEN Encoded(<<233>>
                          \o encodeBytes(symbol.value - (m_current_address + 1 + 2), 2))
             ELSE EncodeFailed("Jump target too far for SHORT jump")
        ELSE Encoded(<<encoding.base_opcode>> \o encodeBytes(displacement, disp_size))

\* encodeRelative: the displacement is measured from the end of the instruction;
\* a SHORT displacement outside -128..127 turns JMP into the NEAR form and fails
\* every other mnemonic
encodeRelative(encoding, instr, tab, m_current_address) ==
    LET label_ref == instr.operands[1]
        symbol == lookupLabel(tab, label_ref.label)
        disp_size == IF encoding.operands[1] = "REL8" THEN 1 ELSE 2
        displacement == symbol.value - (m_current_address + 1 + disp_size)
    IN  IF label_ref.op # "label" THEN EncodeFailed("Expected label operand for jump")
        ELSE IF ~symbol.found THEN EncodeFailed("Undefined label")
        ELSE IF disp_size = 1 /\ (displacement < -128 \/ displacement > 127)
        THEN IF instr.mnemonic = "JMP"
             THEN Encoded(<<233>>
                          \o encodeBytes(symbol.value - (m_current_address + 1 + 2), 2))
             ELSE EncodeFailed("Jump target too far for SHORT jump")
        ELSE Encoded(<<encoding.base_opcode>> \o encodeBytes(displacement, disp_size))

\* encode, from the row r that findEncoding chose
encodeRow(r, instr, tab, m_current_address) ==
    LET encoding == INSTRUCTION_TABLE[r]
    IN  IF r = 0 THEN EncodeFailed("No encoding found for instruction")
        ELSE CASE encoding.encoding_type = "MODRM" -> encodeModRM(encoding, instr, tab)
               [] encoding.encoding_type = "REG_IN_OPCODE" ->
                      encodeRegInOpcode(encoding, instr, tab)
               [] encoding.encoding_type = "IMMEDIATE" ->
                      encodeImmediate(encoding, instr, tab)
               [] encoding.encoding_type = "MODRM_IMM" ->
                      encodeModRMImm(encoding, instr, tab)
               [] encoding.encoding_type = "RELATIVE" ->
                      encodeRelative(encoding, instr, tab, m_current_address)
               [] encoding.encoding_type = "FIXED" -> Encoded(<<encoding.base_opcode>>)
               [] OTHER -> EncodeFailed("Unsupported encoding type")

encode(instr, tab, m_current_address) ==
    encodeRow(findEncoding(instr.mnemonic, instr.operands), instr, tab, m_current_address)

\* ------------------------------------------------------------------ pass 1
Recorded(a, i, size) ==
    [a EXCEPT !.m_addresses = Append(@, [index |-> i, address |-> a.m_current_address,
                                         size |-> size]),
              !.m_current_address = @ + size]

Pass1Ok(a, tab, stmt) == [ok |-> TRUE, a |-> a, tab |-> tab, stmt |-> stmt]
Pass1Failed(a, tab, stmt) == [ok |-> FALSE, a |-> a, tab |-> tab, stmt |-> stmt]

Pass1Label(a, tab, label, i) ==
    LET scoped == IF ~isLocalLabel(label.name) THEN setGlobalScope(tab, label.name)
                  ELSE tab
    IN  IF ~SymDefineOk(scoped, label.name)
        THEN Pass1Failed(SemError(a, "Label already defined", i), scoped, label)
        ELSE Pass1Ok(Recorded(a, i, 0),
                     SymDefine(scoped, label.name, "LABEL", a.m_current_address, i),
                     label)

Pass1EQU(a, tab, equ, i) ==
    IF ~SymDefineOk(tab, equ.name)
    THEN Pass1Failed(SemError(a, "Constant already defined", i), tab, equ)
    ELSE Pass1Ok(Recorded(a, i, 0),
                 SymDefine(tab, equ.name, "CONSTANT", equ.value, i), equ)

Pass1SEGMENT(a, tab, seg, i) ==
    LET entered == enterSegment(a, seg.name)
        cleared == setGlobalScope(tab, <<>>)
        defined == IF SymDefineOk(cleared, seg.name)
                   THEN SymDefine(cleared, seg.name, "LABEL", entered.m_current_address, i)
                   ELSE SymUpdate(cleared, seg.name, entered.m_current_address)
    IN  Pass1Ok(Recorded(entered, i, 0),
                setGlobalScope(defined, tab.m_current_global_label), seg)

Pass1TIMES(a, tab, times, i) ==
    LET counted == IF times.count < 0
                   THEN resolveSymbol(a, tab, times.count_expr, i)
                   ELSE [ok |-> TRUE, value |-> times.count, a |-> a]
        node == times.repeated_node
        data == resolveDataSymbols(counted.a, tab, node, i)
    IN  IF ~counted.ok THEN Pass1Failed(counted.a, tab, times)
        ELSE IF node.kind = "Data"
        THEN IF ~data.ok
             THEN Pass1Failed(data.a, tab, [times EXCEPT !.count = counted.value])
             ELSE Pass1Ok(Recorded(data.a, i,
                              DataValuesSize(data.values, ElementSize(node.size))
                              * counted.value),
                          tab,
                          [times EXCEPT !.count = counted.value,
                                        !.repeated_node.values = data.values])
        ELSE Pass1Ok(Recorded(counted.a, i,
                         (IF node.kind = "Instruction"
                          THEN calculateInstructionSize(node) ELSE 0) * counted.value),
                     tab, [times EXCEPT !.count = counted.value])

Pass1Data(a, tab, data, i) ==
    LET r == resolveDataSymbols(a, tab, data, i) IN
    IF ~r.ok THEN Pass1Failed(r.a, tab, data)
    ELSE Pass1Ok(Recorded(r.a, i, DataValuesSize(r.values, ElementSize(data.size))),
                 tab, [data EXCEPT !.values = r.values])

\* the instruction branch once its size is known
Pass1Placed(a, tab, instr, i, size) ==
    Pass1Ok([Recorded(a, i, size) EXCEPT !.m_last_was_terminator = IsTerminator(instr)],
            tab,
            [instr EXCEPT !.assigned_address = a.m_current_address,
                          !.estimated_size = size])

\* the instruction branch once its memory operands went through resolveMemoryOperands
Pass1Resolved(a, tab, instr, i, ok) ==
    IF ~ok THEN Pass1Failed(a, tab, instr)
    ELSE Pass1Placed(a, tab, instr, i, calculateInstructionSize(instr))

Pass1Operands(tab, instr, i, r) ==
    Pass1Resolved(r.a, tab, [instr EXCEPT !.operands = r.operands], i, r.ok)

Pass1Instruction(a, tab, instr, i) ==
    Pass1Operands(tab, instr, i, resolveMemoryOperands(a, tab, instr, i))

\* one iteration of the loop of pass1_buildSymbols, on statement i
Pass1Statement(a, tab, stmt, i) ==
    CASE stmt.kind = "Label" -> Pass1Label(a, tab, stmt, i)
      [] stmt.kind = "EQU" -> Pass1EQU(a, tab, stmt, i)
      [] stmt.kind = "ORG" -> Pass1Ok(Recorded(setOrigin(a, stmt.address), i, 0), tab, stmt)
      [] stmt.kind = "SEGMENT" -> Pass1SEGMENT(a, tab, stmt, i)
      [] stmt.kind = "ENDS" -> Pass1Ok(Recorded(exitSegment(a, stmt.name), i, 0), tab, stmt)
      [] stmt.kind = "RES" ->
            Pass1Ok(Recorded(a, i, ElementSize(stmt.size) * stmt.count), tab, stmt)
      [] stmt.kind = "TIMES" -> Pass1TIMES(a, tab, stmt, i)
      [] stmt.kind = "Data" -> Pass1Data(a, tab, stmt, i)
      [] stmt.kind = "Instruction" -> Pass1Instruction(a, tab, stmt, i)
      [] OTHER -> Pass1Ok(a, tab, stmt)

\* ------------------------------------------------------------------ code generator
CodeGeneratorInit ==
    [m_current_address |-> 0, m_binary |-> <<>>, m_listing |-> <<>>, m_errors |-> <<>>]

AssembledLine(source_line, address, machine_code, success) ==
    [source_line |-> source_line, address |-> address,
     machine_code |-> machine_code, success |-> success]

\* ErrorReporter::error
ReportError(c, message, line) ==
    [c EXCEPT !.m_errors = Append(@, Error(message, line, "ERROR"))]

\* hasErrors counting fatal diagnostics only
hasFatal(errors) == \E k \in DOMAIN errors : errors[k].severity = "FATAL"

\* ErrorReporter::hasErrors: error() or fatal() was called
hasErrors(errors) == \E k \in DOMAIN errors : isError(errors[k])

\* bytes appended to the image under a listing entry that carries none of them
EmittedUnlisted(c, i, bytes) ==
    [c EXCEPT !.m_binary = @ \o bytes,
              !.m_current_address = @ + Len(bytes),
              !.m_listing = Append(@, AssembledLine(i, c.m_current_address, <<>>, TRUE))]

\* a listing entry at the current address carrying the given bytes
Emitted(c, i, bytes) ==
    [c EXCEPT !.m_binary = @ \o bytes,
              !.m_current_address = @ + Len(bytes),
              !.m_listing = Append(@, AssembledLine(i, c.m_current_address, bytes, TRUE))]

Generated(ok, c, tab) == [ok |-> ok, c |-> c, tab |-> tab]

processLabel(c, tab, label, i) ==
    Generated(TRUE, Emitted(c, i, <<>>),
              IF ~isLocalLabel(label.name) THEN setGlobalScope(tab, label.name) ELSE tab)

\* processInstruction after the call of the encoder: bytes and a listing entry, or an
\* error and a failed listing entry
recordEncoded(c, tab, i, encoded) ==
    IF encoded.success
    THEN Generated(TRUE, Emitted(c, i, encoded.bytes), tab)
    ELSE Generated(FALSE,
                   [ReportError(c, encoded.error, i) EXCEPT
                       !.m_listing = Append(@, AssembledLine(i, c.m_current_address,
                                                              <<>>, FALSE))],
                   tab)

\* the encoder works at the address pass 1 assigned; the listing entry and the
\* image use the generator's own running address
processInstruction(c, tab, instr, i) ==
    recordEncoded(c, tab, i, encode(instr, tab, instr.assigned_address))

RECURSIVE DataBytes(_, _)
DataBytes(values, element_size) ==
    IF values = <<>> THEN <<>>
    ELSE LET value == Head(values) IN
         (CASE value.type = "STRING" ->
                  [k \in 1..Len(value.string_value) |-> value.string_value[k] % 256]
            [] value.type = "CHARACTER" ->
                  (IF value.string_value # <<>>
                   THEN <<value.string_value[1] % 256>> ELSE <<>>)
            [] OTHER -> encodeBytes(value.number_value, element_size))
         \o DataBytes(Tail(values), element_size)

processDataDirective(c, tab, directive, i) ==
    Generated(TRUE, Emitted(c, i, DataBytes(directive.values, ElementSize(directive.size))),
              tab)

processRESDirective(c, tab, directive, i) ==
    Generated(TRUE,
              Emitted(c, i, [k \in 1..(ElementSize(directive.size) * directive.count) |-> 0]),
              tab)

\* generateStatement for every statement kind but TIMES
generateSimple(c, tab, stmt, i) ==
    CASE stmt.kind = "Label" -> processLabel(c, tab, stmt, i)
      [] stmt.kind = "Instruction" -> processInstruction(c, tab, stmt, i)
      [] stmt.kind = "Data" -> processDataDirective(c, tab, stmt, i)
      [] stmt.kind \in {"EQU", "ORG", "SEGMENT", "ENDS"} ->
            Generated(TRUE, Emitted(c, i, <<>>), tab)
      [] stmt.kind = "RES" -> processRESDirective(c, tab, stmt, i)
      [] OTHER -> Generated(TRUE, c, tab)

\* processTIMESDirective: count copies, stopping at the first that fails
RECURSIVE processTIMESDirective(_, _, _, _, _)
repeatAfter(one, directive, i, remaining) ==
    IF ~one.ok THEN one
    ELSE processTIMESDirective(one.c, one.tab, directive, i, remaining - 1)

processTIMESDirective(c, tab, directive, i, remaining) ==
    IF remaining <= 0 THEN Generated(TRUE, c, tab)
    ELSE repeatAfter(generateSimple(c, tab, directive.repeated_node, i),
                     directive, i, remaining)

generateStatement(c, tab, stmt, i) ==
    IF stmt.kind = "TIMES" THEN processTIMESDirective(c, tab, stmt, i, stmt.count)
    ELSE generateSimple(c, tab, stmt, i)

\* ------------------------------------------------------------------ result
AssemblyResultInit ==
    [success |-> FALSE, errors |-> <<>>, binary |-> <<>>, listing |-> <<>>,
     symbols |-> <<>>, origin_address |-> 0]

Failure(errors) == [AssemblyResultInit EXCEPT !.errors = errors]

\* the keys of the LABEL symbols that carry the given (unqualified) name
LabelKeys(tab, name) ==
    {q \in DOMAIN tab.m_symbols :
        tab.m_symbols[q].type = "LABEL" /\ tab.m_symbols[q].name = name}

LabelNames(tab) ==
    {tab.m_symbols[q].name : q \in {k \in DOMAIN tab.m_symbols :
                                        tab.m_symbols[k].type = "LABEL"}}

\* result.symbols[symbol.name] = symbol.value over the hash map, in its iteration
\* order: for a name carried by several symbols the last one visited stays, and which
\* one that is the container does not specify
SymbolMaps(tab) ==
    { [name \in LabelNames(tab) |-> tab.m_symbols[pick[name]].value] :
        pick \in { f \in [LabelNames(tab) -> DOMAIN tab.m_symbols] :
                      \A name \in LabelNames(tab) : f[name] \in LabelKeys(tab, name) } }

\* ------------------------------------------------------------------ parser
\* a token of the lexer: its type, and its number or lexeme
Token(type, lexeme, number) == [type |-> type, lexeme |-> lexeme, number |-> number]

\* the text "TIMES <tokens> <statement>": the tokens written between the keyword
\* and the repeated statement, none of which starts a statement by itself
TimesSource(tokens, repeated) ==
    [kind |-> "TimesSource", tokens |-> tokens, repeated |-> repeated]

ParseError(message, line) == Error(message, line, "ERROR")

\* parseStatement on each of the given tokens: "Unknown statement", one error each
UnknownStatements(tokens, line) ==
    [k \in 1..Len(tokens) |->
        ParseError("Expected instruction, label, or directive", line)]

\* parseTIMESDirective, and the parse loop over what it leaves of the line: the
\* count is one NUMBER or one IDENTIFIER token, and the repeated statement must
\* start at the very next token
parseTIMESDirective(src, line) ==
    IF src.tokens = <<>> \/ src.tokens[1].type \notin {"NUMBER", "IDENTIFIER"}
    THEN [node |-> src,
          errors |-> <<ParseError("Expected count (number or constant) after TIMES",
                                  line)>>
                     \o UnknownStatements(src.tokens, line)]
    ELSE IF Len(src.tokens) > 1
    THEN [node |-> src,
          errors |-> <<ParseError("Expected instruction, label, or directive", line),
                       ParseError("Expected statement after TIMES directive", line)>>
                     \o UnknownStatements(Tail(Tail(src.tokens)), line)]
    ELSE [node |-> IF src.tokens[1].type = "NUMBER"
                   THEN TIMESDirective(src.tokens[1].number, src.tokens[1].lexeme,
                                       src.repeated)
                   ELSE TIMESDirective(-1, src.tokens[1].lexeme, src.repeated),
          errors |-> <<>>]

\* parseStatement: the statements other than TIMES are given as the parser builds them
parseStatement(src, line) ==
    IF src.kind = "TimesSource" THEN parseTIMESDirective(src, line)
    ELSE [node |-> src, errors |-> <<>>]

RECURSIVE ParseErrorsFrom(_, _)
ParseErrorsFrom(text, k) ==
    IF k > Len(text) THEN <<>>
    ELSE parseStatement(text[k], k).errors \o ParseErrorsFrom(text, k + 1)

\* Parser::parse: the statements, and the errors of the parser's reporter
parse(text) ==
    [statements |-> [k \in 1..Len(text) |-> parseStatement(text[k], k).node],
     errors |-> ParseErrorsFrom(text, 1)]

\* ------------------------------------------------------------------ programs
A == <<"a">>
B == <<"b">>
U == <<"u">>
X == <<".", "x">>

AX == REG("AX", 16, 0, FALSE)
BX == REG("BX", 16, 3, FALSE)

NOP == Instruction("NOP", <<>>)
HLT == Instruction("HLT", <<>>)
Jump(mnemonic, label, jump_type) == Instruction(mnemonic, <<LABELREF(label, jump_type)>>)

\* RESB counts that put a SHORT displacement on either side of -128 and of 127
PadCounts == {125, 126, 127, 128}
Pads == {RESDirective("BYTE", n) : n \in PadCounts}

\* sequences of 1..maxlen statements with at most one padding among them
Programs(statements, pads, maxlen) ==
    UNION { { p \in [1..n -> statements \cup pads] :
                 \A j, k \in 1..n : p[j] \in pads /\ p[k] \in pads => j = k } :
            n \in 1..maxlen }

\* jumps, calls and loops to one label, near and far
JumpStatements ==
    { Label(A), Jump("JMP", A, "SHORT"), Jump("JE", A, "SHORT"), Jump("JMP", A, "NEAR"),
      Jump("CALL", A, "NEAR"), Jump("LOOP", A, "SHORT"), NOP }

\* one label referenced from every operand position
ReferenceStatements ==
    { Label(A), Jump("JMP", A, "NEAR"),
      Instruction("MOV", <<AX, IMMLABEL(A, 0)>>),
      Instruction("MOV", <<AX, MEM(<<TOKID(A, FALSE)>>, 0, "")>>),
      Instruction("MOV", <<AX, MEM(<<TOKREG("BX"), TOKID(A, FALSE)>>, 0, "")>>),
      DataDirective("WORD", <<SYMBOL(A)>>), NOP }

\* a local label under two global labels
ScopeStatements ==
    { Label(A), Label(B), Label(X), Jump("JMP", X, "NEAR"),
      Instruction("MOV", <<AX, IMMLABEL(X, 0)>>), NOP }

\* statements that fail in the analyzer or in the encoder, and segment switches
ErrorStatements ==
    { Label(A), Jump("JMP", U, "NEAR"), DataDirective("WORD", <<SYMBOL(U)>>),
      DataDirective("BYTE", <<NUMBER(1)>>), NOP, HLT,
      SEGMENTDirective(<<".", "t", "e", "x", "t">>),
      SEGMENTDirective(<<".", "d", "a", "t", "a">>) }

\* labels and constants whose names differ by letter case only, or not at all
DefineStatements ==
    { Label(A), Label(<<"A">>), Label(B), Label(X), Label(<<".", "X">>),
      EQUDirective(<<"A">>, 7), EQUDirective(<<"c">>, 9), EQUDirective(<<"C">>, 11),
      NOP }

\* references to a symbol that no statement defines, alone and inside an expression,
\* beside an expression over a constant
EACH == <<"e", "a", "c", "h">>
Plus(name, digit) == name \o <<" ", "+", " ", digit>>

UndefinedStatements ==
    { Label(A), EQUDirective(<<"c">>, 9), NOP, Jump("JMP", U, "NEAR"),
      Instruction("MOV", <<AX, IMMLABEL(U, 0)>>),
      Instruction("MOV", <<AX, MEM(<<TOKID(U, FALSE)>>, 0, "")>>),
      DataDirective("WORD", <<SYMBOL(U)>>),
      Instruction("MOV", <<AX, IMMLABEL(Plus(<<"c">>, "1"), 0)>>),
      Instruction("MOV", <<AX, IMMLABEL(Plus(U, "1"), 0)>>),
      Instruction("MOV", <<AX, IMMLABEL(Plus(EACH, "1"), 0)>>) }

\* a text with and without ORG, labels under two scopes, and a failing reference
SessionStatements ==
    { ORGDirective(256), NOP, Label(A), Label(B), Label(X),
      Jump("JMP", A, "NEAR"), DataDirective("WORD", <<SYMBOL(U)>>) }

\* TIMES over an instruction, data and a reservation, written with a number, and
\* the padding idiom TIMES N-($-$$) DB 0 for N = PadTo, after ORG and before DW
PadTo == 6
Repeat(count, repeated) == TimesSource(<<Token("NUMBER", <<>>, count)>>, repeated)

PadIdiom ==
    TimesSource(<<Token("NUMBER", <<>>, PadTo), Token("MINUS", <<"-">>, 0),
                  Token("LPAREN", <<"(">>, 0), Token("DOLLAR", <<"$">>, 0),
                  Token("MINUS", <<"-">>, 0), Token("DOUBLE_DOLLAR", <<"$", "$">>, 0),
                  Token("RPAREN", <<")">>, 0)>>,
                DataDirective("BYTE", <<NUMBER(0)>>))

LayoutStatements ==
    { ORGDirective(256), NOP, Label(A), Label(B),
      DataDirective("WORD", <<NUMBER(43605)>>),
      Repeat(2, NOP), Repeat(0, NOP), Repeat(2, DataDirective("BYTE", <<NUMBER(1)>>)),
      Repeat(2, RESDirective("BYTE", 3)), PadIdiom }

\* every kind of statement that emits bytes, alone and under TIMES, and statements
\* that fail in the emitter and in the analyzer
EmitStatements ==
    { NOP, Label(A), DataDirective("WORD", <<NUMBER(43605)>>),
      DataDirective("BYTE", <<STRINGV(<<104, 105>>), NUMBER(0)>>),
      RESDirective("BYTE", 3), Repeat(2, NOP), Repeat(2, RESDirective("WORD", 1)),
      Jump("JMP", U, "NEAR"), Repeat(2, Jump("JMP", U, "NEAR")) }

\* two data segments entered, closed and entered again around data and a label
DATA == <<".", "d", "a", "t", "a">>
BSS == <<".", "b", "s", "s">>

SegmentStatements ==
    { SEGMENTDirective(DATA), SEGMENTDirective(BSS), ENDSDirective(<<>>),
      DataDirective("BYTE", <<NUMBER(1)>>), Label(A), NOP }

\* memory operands with and without registers, numbers and a label, as source and
\* as destination of MOV
Load(reg, address_expr) == Instruction("MOV", <<reg, MEM(address_expr, 0, "")>>)

MemoryStatements ==
    { Label(A), NOP,
      Load(BX, <<TOKREG("BP")>>), Load(AX, <<TOKREG("BP")>>),
      Instruction("MOV", <<MEM(<<TOKREG("BP")>>, 0, ""), AX>>),
      Instruction("MOV", <<MEM(<<TOKREG("BP")>>, 16, ""), IMM(5, 0)>>),
      Load(BX, <<TOKREG("BX")>>), Load(BX, <<TOKREG("BP"), TOKREG("SI")>>),
      Load(BX, <<TOKREG("BP"), TOKNUM(0, FALSE)>>),
      Load(BX, <<TOKREG("BP"), TOKID(A, FALSE)>>),
      Load(BX, <<TOKREG("BX"), TOKID(A, FALSE)>>),
      Load(BX, <<TOKNUM(5, FALSE)>>), Load(BX, <<TOKID(A, FALSE)>>),
      Load(BX, <<>>) }

\* MOV between a register and a memory operand without registers: a number or a
\* label defined before or after, with AL, AX and other registers, in both directions
AL == REG("AL", 8, 0, FALSE)
CL == REG("CL", 8, 1, FALSE)
Store(address_expr, reg) == Instruction("MOV", <<MEM(address_expr, 0, ""), reg>>)

AccumulatorStatements ==
    { Label(A), NOP }
    \cup { Load(reg, address_expr) :
             reg \in {AL, AX, BX, CL},
             address_expr \in { <<TOKNUM(5, FALSE)>>, <<TOKID(A, FALSE)>> } }
    \cup { Store(address_expr, reg) :
             reg \in {AL, AX, BX},
             address_expr \in { <<TOKNUM(5, FALSE)>>, <<TOKID(A, FALSE)>> } }

\* MOV between two registers: general, byte and segment registers
DS == REG("DS", 16, 3, TRUE)
Move(dst, src) == Instruction("MOV", <<dst, src>>)

RegisterStatements ==
    { NOP } \cup { Move(dst, src) : dst \in {AX, BX, AL, CL, DS}, src \in {AX, BX, AL, CL, DS} }

\* relative jumps and calls to one label, alone and repeated by TIMES
TimesJumpStatements ==
    { Label(A), NOP, Jump("JMP", A, "NEAR"),
      Repeat(2, Jump("JMP", A, "NEAR")), Repeat(2, Jump("CALL", A, "NEAR")),
      Repeat(3, Jump("JMP", A, "SHORT")) }

\* the name .data defined by a segment and referenced, under a global label or
\* not, from a jump, an immediate, memory operands and a data value
DotStatements ==
    { SEGMENTDirective(DATA), Label(A), NOP,
      Jump("JMP", DATA, "NEAR"),
      Instruction("MOV", <<AX, IMMLABEL(DATA, 0)>>),
      Load(AX, <<TOKID(DATA, FALSE)>>),
      Load(BX, <<TOKID(DATA, FALSE)>>),
      Load(BX, <<TOKREG("BX"), TOKID(DATA, FALSE)>>),
      DataDirective("WORD", <<SYMBOL(DATA)>>) }

\* a code and a data segment around instructions that end the flow of control,
\* written with and without operands, and instructions that do not
TEXT == <<".", "t", "e", "x", "t">>
RET == Instruction("RET", <<>>)

TerminatorStatements ==
    { SEGMENTDirective(TEXT), SEGMENTDirective(DATA), Label(A), NOP, HLT, RET,
      Jump("JMP", A, "NEAR"), Instruction("INT", <<IMM(33, 0)>>),
      Instruction("MOV", <<AX, IMM(1, 0)>>) }

\* immediates written as expressions over numbers and the constant c: products
\* and sums in both orders, and parenthesised sums and differences
C == <<"c">>
ExpressionTexts ==
    { <<"2", "*", "(", "3", "+", "c", ")">>,
      <<"1", "0", "-", "(", "c", "-", "1", ")">>,
      <<"2", "+", "3", "*", "c">>,
      <<"2", "*", "3", "+", "c">>,
      <<"1", "0", "-", "c", "-", "1">>,
      <<"8", "/", "c", "-", "1">>,
      <<"2", "*", "c">> }

ExpressionStatements ==
    { EQUDirective(C, 4), NOP }
    \cup { Instruction("MOV", <<AX, IMMLABEL(text, 0)>>) : text \in ExpressionTexts }

\* one name defined by a label, by a constant and by a segment
DATANAME == <<"d", "a", "t", "a">>

TakenStatements ==
    { Label(DATANAME), EQUDirective(DATANAME, 7), SEGMENTDirective(DATANAME),
      Label(A), NOP, DataDirective("BYTE", <<NUMBER(1)>>) }

JumpPrograms == Programs(JumpStatements, Pads, MaxStmts)
DefinePrograms == Programs(DefineStatements, {}, MaxStmts)
SegmentPrograms == Programs(SegmentStatements, {}, MaxStmts)
EmitPrograms == Programs(EmitStatements, {}, MaxStmts)
LayoutPrograms == Programs(LayoutStatements, {}, MaxStmts)
SessionPrograms == Programs(SessionStatements, {}, MaxStmts)
UndefinedPrograms == Programs(UndefinedStatements, {}, MaxStmts)
ReferencePrograms == Programs(ReferenceStatements, {}, MaxStmts)
ScopePrograms == Programs(ScopeStatements, {}, MaxScopeStmts)
ErrorPrograms == Programs(ErrorStatements, {}, MaxStmts)

\* ------------------------------------------------------------------ the run
\* Assembler::Impl as constructed
ImplInit == [origin |-> 0]

\* no assemble call was made before this one
NoCall == [called |-> FALSE]

\* the result of a call and the symbol table it was read from
Call(r, tab) == [called |-> TRUE, result |-> r, m_symbols |-> tab.m_symbols]

\* the getAllSymbols loop visits an unordered_map built by the same insertions in
\* the same order as in the call before
SameIteration(symbols) ==
    previous.called /\ previous.m_symbols = symtab.m_symbols
        => symbols = previous.result.symbols

\* how the front end ended in a call: preprocessing, lexing and parsing depend on
\* the text alone (their objects are locals of assemble)
FrontEndOutcome(r) ==
    IF r.errors # <<>> /\ r.errors[1].message \in {"preprocess_error", "parse_error"}
    THEN r.errors[1].message
    ELSE "parsed"

SameFrontEnd(outcome) ==
    previous.called => outcome = FrontEndOutcome(previous.result)

InitWith(programs) ==
    /\ source \in programs
    /\ impl = ImplInit
    /\ previous = NoCall
    /\ program = <<>>
    /\ pc = "start"
    /\ idx = 0
    /\ sa = SemanticAnalyzerInit
    /\ symtab = EmptySymbolTable
    /\ cg = CodeGeneratorInit
    /\ result = AssemblyResultInit

Init == InitWith(JumpPrograms \cup ReferencePrograms \cup ScopePrograms \cup ErrorPrograms)

\* a code generator that outlives the call, with its analyzer and symbol table
KeptGenerator(old) == old

\* CodeGenerator generator; a local object of assemble, constructed in every call
NewGenerator(old) ==
    [sa |-> SemanticAnalyzerInit, symtab |-> EmptySymbolTable, cg |-> CodeGeneratorInit]

Constructed(generator) ==
    /\ sa' = generator.sa
    /\ symtab' = generator.symtab
    /\ cg' = generator.cg

\* the parser's part of assemble: the program and a generator for it, or the
\* parser's errors
Parsed(r) ==
    IF r.errors = <<>>
    THEN /\ pc' = "pass1"
         /\ idx' = 1
         /\ program' = r.statements
         /\ result' = result
         /\ Constructed(NewGenerator([sa |-> sa, symtab |-> symtab, cg |-> cg]))
    ELSE /\ pc' = "done"
         /\ idx' = idx
         /\ program' = program
         /\ result' = Failure(r.errors)
         /\ UNCHANGED <<sa, symtab, cg>>

\* Assembler::Impl::assemble up to the call of generate. The preprocessor and the
\* lexer are not modelled beyond their outcome: the text is rejected before or in
\* the parser for a reason the statements do not show, with one diagnostic of
\* severity ERROR, or its statements go through Parser::parse.
AssembleFrontEnd ==
    /\ pc = "start"
    /\ \E outcome \in {"parsed", "preprocess_error", "parse_error"} :
          /\ SameFrontEnd(outcome)
          /\ IF outcome = "parsed"
             THEN Parsed(parse(source))
             ELSE /\ pc' = "done"
                  /\ idx' = idx
                  /\ program' = program
                  /\ result' = Failure(<<Error(outcome, 1, "ERROR")>>)
                  /\ UNCHANGED <<sa, symtab, cg>>
    /\ UNCHANGED <<source, impl, previous>>

Pass1Outcome(r) ==
    /\ sa' = r.a
    /\ symtab' = r.tab
    /\ program' = [program EXCEPT ![idx] = r.stmt]
    /\ IF r.ok
       THEN /\ idx' = idx + 1
            /\ pc' = pc
            /\ result' = result
       ELSE /\ idx' = idx
            /\ pc' = "done"
            /\ result' = Failure(r.a.m_errors)
    /\ UNCHANGED <<source, impl, previous>>

\* one iteration of the loop of pass1_buildSymbols; a failing statement ends
\* analyze and generate with the analyzer's errors
Pass1Step ==
    /\ pc = "pass1"
    /\ idx <= Len(program)
    /\ Pass1Outcome(Pass1Statement(sa, symtab, program[idx], idx))
    /\ UNCHANGED cg

\* the rest of analyze (pass 2 does nothing, every symbol is resolved) and the
\* start of emission at the origin
AnalyzeFinish ==
    /\ pc = "pass1"
    /\ idx > Len(program)
    /\ IF sa.m_errors = <<>>
       THEN /\ pc' = "generate"
            /\ idx' = 1
            /\ cg' = [CodeGeneratorInit EXCEPT !.m_current_address = sa.m_origin_address]
            /\ result' = result
       ELSE /\ pc' = "done"
            /\ idx' = idx
            /\ cg' = cg
            /\ result' = Failure(sa.m_errors)
    /\ UNCHANGED <<source, impl, previous, program, sa, symtab>>

GenerateOutcome(r) ==
    /\ cg' = r.c
    /\ symtab' = r.tab
    /\ idx' = IF r.ok THEN idx + 1 ELSE Len(program) + 1

\* one iteration of the loop of generate; a failing statement breaks the loop
GenerateStep ==
    /\ pc = "generate"
    /\ idx <= Len(program)
    /\ GenerateOutcome(generateStatement(cg, symtab, program[idx], idx))
    /\ UNCHANGED <<source, impl, previous, program, pc, sa, result>>

\* the result of generate after the loop
GenerateFinish ==
    /\ pc = "generate"
    /\ idx > Len(program)
    /\ \E symbols \in SymbolMaps(symtab) :
          /\ SameIteration(symbols)
          /\ result' = [success |-> ~hasErrors(cg.m_errors), errors |-> cg.m_errors,
                     binary |-> cg.m_binary, listing |-> cg.m_listing,
                     symbols |-> symbols, origin_address |-> sa.m_origin_address]
    /\ pc' = "done"
    /\ UNCHANGED <<source, impl, previous, program, idx, sa, symtab, cg>>

Next ==
    \/ AssembleFrontEnd
    \/ Pass1Step
    \/ AnalyzeFinish
    \/ GenerateStep
    \/ GenerateFinish

\* the origins a caller sets
Origins == {0, 256}

\* Assembler::setOrigin, before a call of assemble
SetOrigin ==
    /\ pc = "start"
    /\ \E origin \in Origins : impl' = [impl EXCEPT !.origin = origin]
    /\ UNCHANGED <<source, previous, program, pc, idx, sa, symtab, cg, result>>

\* a second call of assemble with the same text, on the same Assembler or on a
\* newly constructed one; the result of the first call is kept for comparison
Reassemble ==
    /\ pc = "done"
    /\ ~previous.called
    /\ previous' = Call(result, symtab)
    /\ \E fresh \in BOOLEAN : impl' = IF fresh THEN ImplInit ELSE impl
    /\ pc' = "start"
    /\ idx' = 0
    /\ program' = <<>>
    /\ result' = AssemblyResultInit
    /\ UNCHANGED <<source, sa, symtab, cg>>

\* the calls a user of one Assembler makes
NextSession ==
    \/ Next
    \/ SetOrigin
    \/ Reassemble

Spec == Init /\ [][Next]_vars
SpecJump == InitWith(JumpPrograms) /\ [][Next]_vars
SpecReference == InitWith(ReferencePrograms) /\ [][Next]_vars
SpecScope == InitWith(ScopePrograms) /\ [][Next]_vars
SpecError == InitWith(ErrorPrograms) /\ [][Next]_vars
SpecDefine == InitWith(DefinePrograms) /\ [][Next]_vars
SpecUndefined == InitWith(UndefinedPrograms) /\ [][Next]_vars
SpecAccumulator == InitWith(Programs(AccumulatorStatements, {}, MaxMemStmts)) /\ [][Next]_vars

SpecRegister == InitWith(Programs(RegisterStatements, {}, MaxRegStmts)) /\ [][Next]_vars

SpecTimesJump == InitWith(Programs(TimesJumpStatements, {}, MaxStmts)) /\ [][Next]_vars

SpecDot == InitWith(Programs(DotStatements, {}, MaxCaseStmts)) /\ [][Next]_vars

SpecTerminator == InitWith(Programs(TerminatorStatements, {}, MaxCaseStmts)) /\ [][Next]_vars

SpecExpression == InitWith(Programs(ExpressionStatements, {}, MaxCaseStmts)) /\ [][Next]_vars

SpecTaken == InitWith(Programs(TakenStatements, {}, MaxCaseStmts)) /\ [][Next]_vars

SpecMemory == InitWith(Programs(MemoryStatements, {}, MaxMemStmts)) /\ [][Next]_vars
SpecSegment == InitWith(SegmentPrograms) /\ [][Next]_vars
SpecEmit == InitWith(EmitPrograms) /\ [][Next]_vars
SpecLayout == InitWith(LayoutPrograms) /\ [][Next]_vars
SpecSession == InitWith(SessionPrograms) /\ [][NextSession]_vars

\* ------------------------------------------------------------------ properties
\* the listing entries of the emitter so far, by position
Entries == DOMAIN cg.m_listing

\* the statement a listing entry was produced for
StatementOf(e) == program[e.source_line]

EncodedInstruction(e) == StatementOf(e).kind = "Instruction" /\ e.success

\* C1: every instruction that encodes successfully is emitted in exactly the
\* estimated_size bytes that pass 1 stored on it and advanced current_address by
C1_EmittedEqualsEstimated ==
    \A k \in Entries :
        EncodedInstruction(cg.m_listing[k]) =>
            Len(cg.m_listing[k].machine_code) = StatementOf(cg.m_listing[k]).estimated_size

\* an instruction was encoded in as many bytes as estimated
C1_Witness ==
    \E k \in Entries :
        /\ EncodedInstruction(cg.m_listing[k])
        /\ StatementOf(cg.m_listing[k]).mnemonic = "JMP"
        /\ Len(cg.m_listing[k].machine_code) = StatementOf(cg.m_listing[k]).estimated_size

\* a jump, call or loop to a label
IsRelative(stmt) ==
    /\ stmt.kind = "Instruction"
    /\ Len(stmt.operands) = 1
    /\ stmt.operands[1].op = "label"

Signed8(b) == IF b >= 128 THEN b - 256 ELSE b
Signed16(w) == IF w >= 32768 THEN w - 65536 ELSE w

\* the displacement an emitted relative instruction carries after its opcode
Displacement(bytes) ==
    IF Len(bytes) = 2 THEN Signed8(bytes[2]) ELSE Signed16(bytes[2] + 256 * bytes[3])

\* listing entry t is the entry of the label that the statement of entry k targets
Targets(k, t) ==
    /\ EncodedInstruction(cg.m_listing[k])
    /\ IsRelative(StatementOf(cg.m_listing[k]))
    /\ StatementOf(cg.m_listing[t]).kind = "Label"
    /\ StatementOf(cg.m_listing[t]).name = StatementOf(cg.m_listing[k]).operands[1].label

\* C2: for every relative jump, call or loop that encodes, listing address of the
\* instruction + its emitted length + the encoded displacement = listing address of
\* the statement its target label marks
C2_DisplacementReachesTarget ==
    \A k, t \in Entries :
        Targets(k, t) =>
            cg.m_listing[k].address + Len(cg.m_listing[k].machine_code)
                + Displacement(cg.m_listing[k].machine_code)
            = cg.m_listing[t].address

\* a backward and non-zero displacement that does reach its target
C2_Witness ==
    \E k, t \in Entries :
        /\ Targets(k, t)
        /\ Displacement(cg.m_listing[k].machine_code) < -100
        /\ cg.m_listing[k].address + Len(cg.m_listing[k].machine_code)
               + Displacement(cg.m_listing[k].machine_code)
           = cg.m_listing[t].address

\* the address of the listing entry produced for statement i in the result
ListingAddress(i) ==
    LET k == CHOOSE k \in DOMAIN result.listing : result.listing[k].source_line = i
    IN  result.listing[k].address

Succeeded == pc = "done" /\ result.success

\* C3: in a successful result symbols[L] is the listing address of the statement
\* right after L's definition, or origin + binary length when L is the last statement
C3_SymbolIsNextListingAddress ==
    Succeeded =>
        \A i \in DOMAIN program :
            program[i].kind = "Label" =>
                result.symbols[program[i].name]
                = IF i < Len(program) THEN ListingAddress(i + 1)
                  ELSE result.origin_address + Len(result.binary)

\* a successful result with a label behind some bytes whose symbol is the listing
\* address of the next statement
C3_Witness ==
    /\ Succeeded
    /\ \E i \in DOMAIN program :
          /\ program[i].kind = "Label"
          /\ i < Len(program)
          /\ result.symbols[program[i].name] > 0
          /\ result.symbols[program[i].name] = ListingAddress(i + 1)

\* a SHORT jump to a label that pass 1 defined
ShortJump(stmt) ==
    /\ IsRelative(stmt)
    /\ stmt.operands[1].jump_type = "SHORT"
    /\ lookupDirect(symtab, stmt.operands[1].label).found

TargetValue(stmt) == lookupDirect(symtab, stmt.operands[1].label).value

\* the rel8 displacement of a SHORT jump: target minus the end of the 2-byte form
Distance(stmt) == TargetValue(stmt) - (stmt.assigned_address + 2)

\* listing entry e is the 2-byte form with displacement d
TwoByteForm(e, d) ==
    /\ e.success
    /\ Len(e.machine_code) = 2
    /\ Signed8(e.machine_code[2]) = d

\* listing entry e failed with the jump-too-far error
TooFar(e) ==
    /\ ~e.success
    /\ \E k \in DOMAIN cg.m_errors :
          /\ cg.m_errors[k].line = e.source_line
          /\ cg.m_errors[k].message = "Jump target too far for SHORT jump"
          /\ cg.m_errors[k].severity = "ERROR"

\* listing entry e is E9 and the 16-bit displacement of the 3-byte instruction
NearForm(e) ==
    /\ e.success
    /\ Len(e.machine_code) = 3
    /\ e.machine_code[1] = 233
    /\ Signed16(e.machine_code[2] + 256 * e.machine_code[3])
       = TargetValue(StatementOf(e)) - (StatementOf(e).assigned_address + 3)

\* SHORT jumps with a displacement in fits encode in 2 bytes; with one in exceeds a
\* conditional jump or loop fails and JMP takes the near form
ShortRange(fits, exceeds) ==
    \A k \in Entries :
        LET e == cg.m_listing[k]
            stmt == StatementOf(e)
        IN  ShortJump(stmt) =>
                /\ Distance(stmt) \in fits => TwoByteForm(e, Distance(stmt))
                /\ Distance(stmt) \in exceeds /\ stmt.mnemonic # "JMP" => TooFar(e)
                /\ Distance(stmt) \in exceeds /\ stmt.mnemonic = "JMP" => NearForm(e)

\* C5 (amended): a SHORT jump with displacement +127, -127 or -128 encodes as a 2-byte
\* instruction; with +128 or -129 a conditional jump fails with the jump-too-far error
\* and JMP becomes E9 with the 16-bit displacement recomputed for 3 bytes
C5_ShortBoundary == ShortRange({127, -127, -128}, {128, -129})

\* C5 as stated: +127 and -127 encode in 2 bytes, +128 and -128 fail or upgrade
C5_AsStated == ShortRange({127, -127}, {128, -128})

\* a conditional jump with displacement -128 was encoded in 2 bytes
C5_Witness ==
    \E k \in Entries :
        /\ ShortJump(StatementOf(cg.m_listing[k]))
        /\ StatementOf(cg.m_listing[k]).mnemonic = "JE"
        /\ Distance(StatementOf(cg.m_listing[k])) = -128
        /\ TwoByteForm(cg.m_listing[k], -128)

\* the program defines the label somewhere
Defined(name) == \E i \in DOMAIN program : program[i] = Label(name)

UndefinedError(e) == e.message \in {"Undefined symbol", "Undefined label"}

\* C4: a program whose references all name a label it defines, before or after the
\* reference and in any operand position or data value, ends without an
\* undefined-symbol error
C4_ForwardReferencesResolve ==
    pc = "done" /\ Defined(A) =>
        \A k \in DOMAIN result.errors : ~UndefinedError(result.errors[k])

\* an immediate naming a label defined later was emitted with the label's value
C4_Witness ==
    /\ Succeeded
    /\ \E k \in DOMAIN result.listing, i \in DOMAIN program :
          /\ program[i] = Label(A)
          /\ result.listing[k].source_line < i
          /\ result.symbols[A] > 0
          /\ program[result.listing[k].source_line].mnemonic = "MOV"
          /\ program[result.listing[k].source_line].operands[2].op = "imm"
          /\ result.listing[k].machine_code = <<184>> \o encodeBytes(result.symbols[A], 2)

IsGlobalLabel(i) == program[i].kind = "Label" /\ ~isLocalLabel(program[i].name)

\* the statement of the global label that most recently precedes statement i, 0 if none
ScopeOf(i) ==
    LET before == {j \in 1..(i - 1) : IsGlobalLabel(j)} IN
    IF before = {} THEN 0 ELSE CHOOSE j \in before : \A h \in before : h <= j

\* the definitions of the local label name under the global label at statement j
LocalDefs(j, name) ==
    {k \in DOMAIN program : program[k] = Label(name) /\ ScopeOf(k) = j}

\* an instruction that names a local label as jump target or as immediate
LocalReference(stmt) ==
    /\ stmt.kind = "Instruction"
    /\ \/ IsRelative(stmt) /\ isLocalLabel(stmt.operands[1].label)
       \/ /\ Len(stmt.operands) = 2
          /\ stmt.operands[2].op = "imm"
          /\ stmt.operands[2].has_label
          /\ isLocalLabel(stmt.operands[2].label_name)

ReferencedName(stmt) ==
    IF IsRelative(stmt) THEN stmt.operands[1].label ELSE stmt.operands[2].label_name

\* the address an emitted reference carries: the jump target, or the immediate word
ResolvedValue(e) ==
    IF IsRelative(StatementOf(e))
    THEN e.address + Len(e.machine_code) + Displacement(e.machine_code)
    ELSE e.machine_code[2] + 256 * e.machine_code[3]

\* the definitions a reference at statement i may resolve to: those under its own
\* global label, or failing any, the one made before every global label
Candidates(i, name) ==
    IF LocalDefs(ScopeOf(i), name) # {} THEN LocalDefs(ScopeOf(i), name)
    ELSE LocalDefs(0, name)

Emission == pc = "done" /\ sa.m_errors = <<>> /\ cg.m_listing # <<>>

FailedEntries == {k \in DOMAIN result.listing : ~result.listing[k].success}

\* C7: after an instruction fails to encode during emission, every later statement
\* still has its listing entry, and every instruction that names the undefined
\* label is reported in the same run
C7_EmissionContinues ==
    Emission =>
        /\ \A k \in FailedEntries :
              \A i \in (result.listing[k].source_line + 1)..Len(program) :
                  \E t \in DOMAIN result.listing : result.listing[t].source_line = i
        /\ \A i \in DOMAIN program :
              program[i] = Jump("JMP", U, "NEAR") =>
                  \E k \in DOMAIN result.errors : result.errors[k].line = i

\* an instruction failed to encode and statements follow it
C7_Witness ==
    /\ Emission
    /\ \E k \in FailedEntries : result.listing[k].source_line < Len(program)

\* the number of independent analyzer errors of the program: every definition of
\* the label after its first, and every data directive naming the undefined symbol
IndependentErrors ==
    LET labels == {i \in DOMAIN program : program[i] = Label(A)}
        data   == {i \in DOMAIN program :
                      program[i] = DataDirective("WORD", <<SYMBOL(U)>>)}
    IN  (IF labels = {} THEN 0 ELSE Cardinality(labels) - 1) + Cardinality(data)

AnalysisFailed == pc = "done" /\ sa.m_errors # <<>>

\* C8: when the analyzer finds an error it goes on to the following statements, so
\* a program with k independent analyzer errors yields at least k diagnostics
C8_AnalyzerContinues ==
    AnalysisFailed => Len(result.errors) >= IndependentErrors

\* the analysis failed on a program that holds two independent errors
C8_Witness == AnalysisFailed /\ IndependentErrors >= 2

FallThrough == {k \in DOMAIN result.errors : result.errors[k].message = FallThroughMessage}

\* C9: the diagnostic for leaving a code segment for a data segment after a
\* non-terminator has warning severity, and a program with no other diagnostic
\* assembles with success and its binary
C9_FallThroughIsWarning ==
    pc = "done" =>
        /\ \A k \in FallThrough : result.errors[k].severity = "WARNING"
        /\ FallThrough = DOMAIN result.errors /\ FallThrough # {} =>
              result.success /\ result.binary # <<>>

\* a run that reported the fall-through from a code segment into a data segment
C9_Witness == pc = "done" /\ FallThrough # {}

\* C10: the returned success flag is true exactly when the returned error list
\* holds no diagnostic of severity error or fatal
C10_SuccessIffNoErrors ==
    pc = "done" =>
        (result.success <=> \A k \in DOMAIN result.errors : ~isError(result.errors[k]))

\* a run that emitted code, met an encoding error, and returned failure with its listing
C10_Witness ==
    /\ pc = "done"
    /\ ~result.success
    /\ result.binary # <<>>
    /\ \E k \in DOMAIN result.errors : isError(result.errors[k])

\* a run that returned success with an empty error list and a binary
C10_WitnessSuccess ==
    pc = "done" /\ result.success /\ result.errors = <<>> /\ result.binary # <<>>

\* statement i defines a label or a constant
Defines(i) == program[i].kind \in {"Label", "EQU"}

\* the key under which statement i defines its name: qualified by the global label
\* that most recently precedes it when the name is local, and case-folded
QualifiedName(i) ==
    FoldCase(IF isLocalLabel(program[i].name) /\ ScopeOf(i) # 0
             THEN program[ScopeOf(i)].name \o program[i].name
             ELSE program[i].name)

Duplicate(i) ==
    /\ Defines(i)
    /\ \E j \in 1..(i - 1) : Defines(j) /\ QualifiedName(j) = QualifiedName(i)

DuplicateMessages == {"Label already defined", "Constant already defined"}

\* the address pass 1 recorded for statement j
RecordedAddress(j) ==
    LET k == CHOOSE k \in DOMAIN sa.m_addresses : sa.m_addresses[k].index = j IN
    sa.m_addresses[k].address

\* symbol sy under key q is the first definition of q in the program, unchanged
FirstDefinition(q, sy) ==
    /\ sy.definition_line \in DOMAIN program
    /\ Defines(sy.definition_line)
    /\ QualifiedName(sy.definition_line) = q
    /\ ~Duplicate(sy.definition_line)
    /\ sy.name = program[sy.definition_line].name
    /\ IF program[sy.definition_line].kind = "EQU"
       THEN sy.type = "CONSTANT" /\ sy.value = program[sy.definition_line].value
       ELSE sy.type = "LABEL" /\ sy.value = RecordedAddress(sy.definition_line)

\* C11: a label or constant whose qualified name equals, ignoring letter case, a
\* name already defined is rejected: the run ends without success and with a
\* duplicate-definition error at that statement, and every symbol of the table
\* still has the kind and the value of the first definition of its name
C11_DuplicateRejected ==
    pc = "done" /\ program # <<>> =>
        /\ \A i \in DOMAIN program :
              Duplicate(i) /\ (\A j \in 1..(i - 1) : ~Duplicate(j)) =>
                  /\ ~result.success
                  /\ \E k \in DOMAIN result.errors :
                        /\ result.errors[k].line = i
                        /\ result.errors[k].message \in DuplicateMessages
        /\ \A q \in DOMAIN symtab.m_symbols : FirstDefinition(q, symtab.m_symbols[q])

\* a run that met a second definition spelled in another letter case and of the
\* other kind than the first
C11_Witness ==
    /\ pc = "done"
    /\ \E i \in DOMAIN program : \E j \in 1..(i - 1) :
          /\ Defines(i) /\ Defines(j)
          /\ QualifiedName(j) = QualifiedName(i)
          /\ program[j].name # program[i].name
          /\ program[j].kind # program[i].kind
          /\ \E k \in DOMAIN result.errors : result.errors[k].line = i

\* the identifiers of an expression text: the maximal runs of letters, digits, dots
\* and underscores that do not start with a digit
IsNameChar(c) == IsWordChar(c) \/ c = DOT

Identifiers(text) ==
    { SubSeq(text, r[1], r[2]) :
        r \in { q \in (DOMAIN text) \X (DOMAIN text) :
                  /\ q[1] <= q[2]
                  /\ \A k \in q[1]..q[2] : IsNameChar(text[k])
                  /\ q[1] > 1 => ~IsNameChar(text[q[1] - 1])
                  /\ q[2] < Len(text) => ~IsNameChar(text[q[2] + 1])
                  /\ DigitValue(text[q[1]]) > 9 } }

\* the symbol names an operand, and a statement, refer to
OperandNames(operand) ==
    CASE operand.op = "label" -> Identifiers(operand.label)
      [] operand.op = "imm" ->
            IF operand.has_label THEN Identifiers(operand.label_name) ELSE {}
      [] operand.op = "mem" ->
            { operand.address_expr[k].id :
                k \in { t \in DOMAIN operand.address_expr :
                          operand.address_expr[t].tok = "id" } }
      [] OTHER -> {}

References(stmt) ==
    CASE stmt.kind = "Instruction" ->
            UNION { OperandNames(stmt.operands[k]) : k \in DOMAIN stmt.operands }
      [] stmt.kind = "Data" ->
            { stmt.values[k].string_value :
                k \in { t \in DOMAIN stmt.values : stmt.values[t].type = "SYMBOL" } }
      [] OTHER -> {}

\* the names some statement of the program defines, in lower case
DefinedNames ==
    { FoldCase(program[k].name) :
        k \in { t \in DOMAIN program : program[t].kind \in {"Label", "EQU", "SEGMENT"} } }

UndefinedReference(i) ==
    \E n \in References(program[i]) : FoldCase(n) \notin DefinedNames

\* the emitter made a listing entry for statement i
Reached(i) == \E k \in DOMAIN cg.m_listing : cg.m_listing[k].source_line = i

\* C12: when a statement the emitter reached refers to a symbol that no statement of
\* the program defines, the result has success = false and its error list holds an
\* error at the line of that statement
C12_UndefinedReported ==
    pc = "done" =>
        \A i \in DOMAIN program :
            Reached(i) /\ UndefinedReference(i) =>
                /\ ~result.success
                /\ \E k \in DOMAIN result.errors : result.errors[k].line = i

\* a successful run that emitted a statement referring to an undefined symbol
C12_Witness ==
    /\ pc = "done" /\ result.success /\ result.errors = <<>>
    /\ \E i \in DOMAIN program : Reached(i) /\ UndefinedReference(i)

\* a finished call whose text went through the parser and holds no ORG directive
NoOrigin ==
    /\ pc = "done"
    /\ program # <<>>
    /\ \A i \in DOMAIN program : program[i].kind # "ORG"

\* C13: after set_origin(X), a text without ORG is assembled as if ORG X came first:
\* origin_address is X, and the listing addresses and the labels start at X
C13_SetOriginApplies ==
    NoOrigin /\ result.success =>
        /\ result.origin_address = impl.origin
        /\ \A k \in DOMAIN result.listing : result.listing[k].address >= impl.origin
        /\ \A name \in DOMAIN result.symbols : result.symbols[name] >= impl.origin

\* a successful call on a text without ORG after set_origin(256), with a label and
\* emitted bytes
C13_Witness ==
    /\ NoOrigin /\ result.success
    /\ impl.origin = 256
    /\ result.listing # <<>> /\ result.binary # <<>>
    /\ DOMAIN result.symbols # {}

C14_WitnessFailure ==
    /\ pc = "done" /\ previous.called
    /\ ~result.success /\ result.errors # <<>> /\ result.listing # <<>>

\* the number of bytes in the machine code of the listing entries made for the
\* statements at the given lines
RECURSIVE ListingBytes(_, _)
ListingBytes(listing, lines) ==
    IF listing = <<>> THEN 0
    ELSE (IF listing[1].source_line \in lines THEN Len(listing[1].machine_code) ELSE 0)
         + ListingBytes(Tail(listing), lines)

\* the size pass 1 recorded for statement j
RecordedSize(j) ==
    LET k == CHOOSE k \in DOMAIN sa.m_addresses : sa.m_addresses[k].index = j IN
    sa.m_addresses[k].size

IsTimes(i) == program[i].kind = "TIMES" /\ program[i].count >= 0

\* C15: for TIMES n S the analyzer advances its address by as many bytes as the
\* emitter appends for the n copies of S, whatever kind of statement S is, so a label
\* right after the directive lies that many bytes after the directive's address
C15_TimesAdvancesByEmitted ==
    pc = "done" /\ result.success =>
        \A i \in DOMAIN program :
            IsTimes(i) =>
                /\ RecordedSize(i) = ListingBytes(result.listing, {i})
                /\ i < Len(program) /\ program[i + 1].kind = "Label" =>
                      result.symbols[program[i + 1].name]
                          = RecordedAddress(i) + ListingBytes(result.listing, {i})

\* a successful run with a TIMES over a reservation followed by a label
C15_Witness ==
    /\ pc = "done" /\ result.success
    /\ \E i \in DOMAIN program :
          /\ IsTimes(i) /\ program[i].count > 0
          /\ program[i].repeated_node.kind = "RES"
          /\ ListingBytes(result.listing, {i}) > 0
          /\ i < Len(program) /\ program[i + 1].kind = "Label"

\* a boot sector text: an optional ORG, some NOPs, the padding idiom and DW 0xAA55
BootSector(text) ==
    /\ Len(text) >= 2
    /\ text[Len(text)] = DataDirective("WORD", <<NUMBER(43605)>>)
    /\ text[Len(text) - 1] = PadIdiom
    /\ \A k \in 1..(Len(text) - 2) :
          text[k] = NOP \/ (k = 1 /\ text[k] = ORGDirective(256))

\* C16: TIMES N-($-$$) DB 0 pads the segment to N bytes: a text of ORG, code, that
\* directive and DW 0xAA55 assembles successfully to N + 2 bytes
C16_PaddingIdiom ==
    pc = "done" /\ BootSector(source) /\ FrontEndOutcome(result) = "parsed" =>
        /\ result.success
        /\ Len(result.binary) = PadTo + 2

\* the parser's verdict on a boot sector text that starts with ORG
C16_Witness ==
    /\ pc = "done" /\ BootSector(source) /\ source[1] = ORGDirective(256)
    /\ ~result.success /\ result.binary = <<>>
    /\ \E k \in DOMAIN result.errors :
          result.errors[k].message = "Expected statement after TIMES directive"

\* the keys of the symbols of one kind in the symbol table
KeysOfType(type) == {q \in DOMAIN symtab.m_symbols : symtab.m_symbols[q].type = type}

\* C17: the symbols map of a result has one entry for every LABEL symbol of the
\* symbol table, mapped to the symbol's value, and no entry for a CONSTANT symbol
C17_SymbolsMapHoldsEveryLabel ==
    pc = "done" /\ result.success =>
        /\ \A q \in KeysOfType("LABEL") :
              /\ symtab.m_symbols[q].name \in DOMAIN result.symbols
              /\ result.symbols[symtab.m_symbols[q].name] = symtab.m_symbols[q].value
        /\ Cardinality(DOMAIN result.symbols) = Cardinality(KeysOfType("LABEL"))
        /\ \A q \in KeysOfType("CONSTANT") :
              symtab.m_symbols[q].name \in DOMAIN result.symbols =>
                  \E k \in KeysOfType("LABEL") :
                      symtab.m_symbols[k].name = symtab.m_symbols[q].name

\* a successful run with two LABEL symbols of one name and different values, and a
\* constant
C17_Witness ==
    /\ pc = "done" /\ result.success
    /\ \E q, k \in KeysOfType("LABEL") :
          /\ q # k
          /\ symtab.m_symbols[q].name = symtab.m_symbols[k].name
          /\ symtab.m_symbols[q].value # symtab.m_symbols[k].value

\* the text starts with its only ORG directive
OriginFirst ==
    /\ program # <<>>
    /\ program[1].kind = "ORG"
    /\ \A i \in 2..Len(program) : program[i].kind # "ORG"

\* C18: when ORG precedes all code, origin_address is its argument and a label
\* after it has the value argument + number of bytes placed between the ORG and
\* the label
C18_LabelIsOriginPlusBytes ==
    pc = "done" /\ result.success /\ OriginFirst =>
        /\ result.origin_address = program[1].address
        /\ \A i \in DOMAIN program :
              program[i].kind = "Label" =>
                  result.symbols[program[i].name]
                      = program[1].address + ListingBytes(result.listing, 2..(i - 1))

\* a successful run of a text that starts with ORG and has bytes before a label
C18_Witness ==
    /\ pc = "done" /\ result.success /\ OriginFirst
    /\ result.origin_address = 256
    /\ \E i \in DOMAIN program :
          /\ program[i].kind = "Label"
          /\ ListingBytes(result.listing, 2..(i - 1)) > 0
          /\ result.symbols[program[i].name] = 256

\* C19: in every result, the lengths of the machine code of the listing entries add
\* up to the length of the binary; the emitter keeps the same sum at every step
C19_ListingCoversBinary ==
    /\ ListingBytes(result.listing, Nat) = Len(result.binary)
    /\ ListingBytes(cg.m_listing, Nat) = Len(cg.m_binary)

\* a failed result that keeps the bytes emitted before the failing instruction,
\* among them bytes of a TIMES directive
C19_Witness ==
    /\ pc = "done" /\ ~result.success
    /\ Len(result.binary) > 0
    /\ \E k \in DOMAIN result.listing : ~result.listing[k].success
    /\ \E i \in DOMAIN program :
          program[i].kind = "TIMES" /\ ListingBytes(result.listing, {i}) > 0

\* a successful result with data, reserved and repeated bytes
C19_WitnessSuccess ==
    /\ pc = "done" /\ result.success
    /\ \E i, j \in DOMAIN program :
          /\ program[i].kind = "Data" /\ program[j].kind = "RES"
          /\ ListingBytes(result.listing, {i}) > 0
          /\ ListingBytes(result.listing, {j}) > 0

\* no ORG directive comes after the first statement
NoLaterOrigin == \A i \in DOMAIN program : i > 1 => program[i].kind # "ORG"

\* C20: entering a segment that was opened before never moves the analyzer's
\* current_address backwards: with no ORG after code, the addresses pass 1 assigns
\* never decrease and the ranges of two statements never overlap
C20_AddressesNeverGoBack ==
    NoLaterOrigin =>
        \A j, k \in DOMAIN sa.m_addresses :
            j < k =>
                sa.m_addresses[j].address + sa.m_addresses[j].size
                    <= sa.m_addresses[k].address

\* a successful run in which two statements that emit bytes were assigned the same
\* address after a segment was entered a second time
C20_Witness ==
    /\ pc = "done" /\ result.success /\ NoLaterOrigin
    /\ \E j, k \in DOMAIN sa.m_addresses :
          /\ j < k
          /\ sa.m_addresses[j].size > 0 /\ sa.m_addresses[k].size > 0
          /\ sa.m_addresses[j].address = sa.m_addresses[k].address
    /\ \E i, n \in DOMAIN program :
          i < n /\ program[i].kind = "SEGMENT" /\ program[n] = program[i]

\* the memory operands of a statement
MemoryOperands(stmt) ==
    IF stmt.kind # "Instruction" THEN {}
    ELSE { stmt.operands[k] :
             k \in { t \in DOMAIN stmt.operands : stmt.operands[t].op = "mem" } }

\* the registers written between the brackets
WrittenRegisters(mem) ==
    { mem.address_expr[k].reg :
        k \in { t \in DOMAIN mem.address_expr : mem.address_expr[t].tok = "reg" } }

\* the table row of an instruction is encoded with a ModR/M byte after the opcode
UsesModRM(stmt) ==
    /\ stmt.kind = "Instruction"
    /\ findEncoding(stmt.mnemonic, stmt.operands) # 0
    /\ INSTRUCTION_TABLE[findEncoding(stmt.mnemonic, stmt.operands)].encoding_type
          \in {"MODRM", "MODRM_IMM"}

\* the listing entries of instructions that were encoded with a memory operand
\* through a ModR/M byte (no segment prefix is written in the modelled programs)
MemoryEntries ==
    { k \in DOMAIN cg.m_listing :
        /\ cg.m_listing[k].success
        /\ UsesModRM(program[cg.m_listing[k].source_line])
        /\ MemoryOperands(program[cg.m_listing[k].source_line]) # {} }

ModField(e) == e.machine_code[2] \div 64
RMField(e) == e.machine_code[2] % 8

\* C21: a memory operand that is BP alone is encoded with mod=01, rm=110 and one
\* zero displacement byte; mod=00 with rm=110 is produced only for operands without
\* a register
C21_BPAlone ==
    \A k \in MemoryEntries :
        \A mem \in MemoryOperands(program[cg.m_listing[k].source_line]) :
            /\ mem.address_expr = <<TOKREG("BP")>> =>
                  /\ ModField(cg.m_listing[k]) = 1
                  /\ RMField(cg.m_listing[k]) = 6
                  /\ cg.m_listing[k].machine_code[3] = 0
            /\ ModField(cg.m_listing[k]) = 0 /\ RMField(cg.m_listing[k]) = 6 =>
                  WrittenRegisters(mem) = {}

\* a run that encoded [BP] in three bytes (opcode, ModR/M, one displacement byte) and a
\* direct address was encoded with mod=00 and rm=110
C21_Witness ==
    /\ pc = "done" /\ result.success
    /\ \E k \in MemoryEntries :
          /\ \E mem \in MemoryOperands(program[cg.m_listing[k].source_line]) :
                mem.address_expr = <<TOKREG("BP")>>
          /\ Len(cg.m_listing[k].machine_code) = 3
    /\ \E k \in MemoryEntries :
          ModField(cg.m_listing[k]) = 0 /\ RMField(cg.m_listing[k]) = 6

\* the memory operand names address registers and a label that had no value yet
\* when the analyzer resolved the operand
ForwardWithRegisters(mem) ==
    /\ mem.parsed_address.parsed
    /\ mem.parsed_address.has_label
    /\ mem.parsed_address.registers # <<>>

\* C22: a memory operand combining address registers with a label that is
\* unresolved when the analyzer reaches the instruction is encoded with mod=10 and
\* a 16-bit displacement, whatever the label's final value
C22_ForwardLabelDisp16 ==
    \A k \in MemoryEntries :
        \A mem \in MemoryOperands(program[cg.m_listing[k].source_line]) :
            ForwardWithRegisters(mem) =>
                /\ ModField(cg.m_listing[k]) = 2
                /\ Len(cg.m_listing[k].machine_code) = 4

\* an instruction with registers and a forward label was encoded
C22_Witness ==
    \E k \in MemoryEntries :
        \E mem \in MemoryOperands(program[cg.m_listing[k].source_line]) :
            ForwardWithRegisters(mem)

\* the written address is a number alone or a label alone
PureAddress(mem) ==
    /\ Len(mem.address_expr) = 1
    /\ mem.address_expr[1].tok \in {"num", "id"}

IsAccumulator(operand) ==
    operand.op = "reg" /\ operand.code = 0 /\ ~operand.is_segment

\* the successfully encoded MOV instructions between a register and a pure address
DirectMoves ==
    { k \in DOMAIN cg.m_listing :
        LET stmt == program[cg.m_listing[k].source_line] IN
        /\ cg.m_listing[k].success
        /\ stmt.kind = "Instruction" /\ stmt.mnemonic = "MOV"
        /\ \E r \in 1..2 :
              /\ stmt.operands[r].op = "reg"
              /\ stmt.operands[3 - r].op = "mem"
              /\ PureAddress(stmt.operands[3 - r]) }

\* A0 / A1 load AL / AX, A2 / A3 store them
MoffsOpcode(stmt) ==
    160 + (IF stmt.operands[1].op = "mem" THEN 2 ELSE 0)
        + (IF \E r \in 1..2 : stmt.operands[r].op = "reg" /\ stmt.operands[r].size = 16
           THEN 1 ELSE 0)

MoffsForm(e, stmt) ==
    /\ Len(e.machine_code) = 3
    /\ e.machine_code[1] = MoffsOpcode(stmt)

GeneralDirectForm(e) ==
    /\ Len(e.machine_code) = 4
    /\ e.machine_code[1] \in 136..139
    /\ ModField(e) = 0
    /\ RMField(e) = 6

\* C23: MOV between AL or AX and a memory operand that is a number alone or a
\* label alone (defined before or after) is encoded as A0/A1/A2/A3 and the 16-bit
\* address; with another register it is encoded with a ModR/M byte of mod=00,
\* rm=110 and a 16-bit displacement
C23_AccumulatorMoffs ==
    \A k \in DirectMoves :
        LET stmt == program[cg.m_listing[k].source_line] IN
        IF \E r \in 1..2 : IsAccumulator(stmt.operands[r])
        THEN MoffsForm(cg.m_listing[k], stmt)
        ELSE GeneralDirectForm(cg.m_listing[k])

\* a run that encoded such a MOV with an accumulator and one with another register
C23_Witness ==
    /\ \E k \in DirectMoves :
          \E r \in 1..2 : IsAccumulator(program[cg.m_listing[k].source_line].operands[r])
    /\ \E k \in DirectMoves :
          \A r \in 1..2 : ~IsAccumulator(program[cg.m_listing[k].source_line].operands[r])

RegField(e) == (e.machine_code[2] \div 8) % 8

\* the successfully encoded two-register instructions whose row has a ModR/M byte
RegisterPairs ==
    { k \in DOMAIN cg.m_listing :
        LET stmt == program[cg.m_listing[k].source_line] IN
        /\ cg.m_listing[k].success
        /\ UsesModRM(stmt)
        /\ Len(stmt.operands) = 2
        /\ stmt.operands[1].op = "reg" /\ stmt.operands[2].op = "reg" }

RowOf(stmt) == INSTRUCTION_TABLE[findEncoding(stmt.mnemonic, stmt.operands)]

\* C24: in a two-register instruction encoded with a ModR/M byte the operand
\* matched by REG8, REG16 or SEGREG is in the reg field and the operand matched by
\* RM8 or RM16 is in the rm field, whichever comes first
C24_RegFieldFollowsRow ==
    \A k \in RegisterPairs :
        LET stmt == program[cg.m_listing[k].source_line] IN
        \A r \in 1..2 :
            /\ RowOf(stmt).operands[r] \in {"REG8", "REG16", "SEGREG"} =>
                  RegField(cg.m_listing[k]) = stmt.operands[r].code
            /\ RowOf(stmt).operands[r] \in {"RM8", "RM16"} =>
                  RMField(cg.m_listing[k]) = stmt.operands[r].code

\* a two-register instruction was encoded through a row whose first operand is the
\* register pattern, and one through a row whose second operand is
C24_Witness ==
    /\ \E k \in RegisterPairs :
          RowOf(program[cg.m_listing[k].source_line]).operands[1] = "SEGREG"
    /\ \E k \in RegisterPairs :
          RowOf(program[cg.m_listing[k].source_line]).operands[2] = "REG16"

\* listing entry k is a copy of a relative jump or call repeated by TIMES, and
\* listing entry t is the entry of the label it names
CopyTargets(k, t) ==
    /\ cg.m_listing[k].success
    /\ StatementOf(cg.m_listing[k]).kind = "TIMES"
    /\ IsRelative(StatementOf(cg.m_listing[k]).repeated_node)
    /\ StatementOf(cg.m_listing[t]).kind = "Label"
    /\ StatementOf(cg.m_listing[t]).name
         = StatementOf(cg.m_listing[k]).repeated_node.operands[1].label

ReachesTarget(k, t) ==
    cg.m_listing[k].address + Len(cg.m_listing[k].machine_code)
        + Displacement(cg.m_listing[k].machine_code)
    = cg.m_listing[t].address

\* C25: every copy of a relative jump or call under TIMES is encoded relative to
\* the address where that copy is placed, so each copy reaches the target label
C25_TimesCopiesReachTarget ==
    \A k, t \in Entries : CopyTargets(k, t) => ReachesTarget(k, t)

\* two copies of one repeated jump were emitted before the label they name
C25_Witness ==
    \E j, k, t \in Entries :
        /\ j < k /\ k < t
        /\ cg.m_listing[j].source_line = cg.m_listing[k].source_line
        /\ CopyTargets(j, t) /\ CopyTargets(k, t)

\* the errors of the analyzer and of the emitter so far
ReportedErrors ==
    { sa.m_errors[k] : k \in DOMAIN sa.m_errors } \cup { cg.m_errors[k] : k \in DOMAIN cg.m_errors }

\* the names beginning with '.' that statement i refers to
DotReferences(i) == { n \in References(program[i]) : isLocalLabel(n) }

\* C26: a reference to a name beginning with '.' that is not defined under the
\* current global scope falls back to the symbol under the unqualified name, in
\* jump targets, immediates, labels inside memory operands and data values: no
\* statement is reported for an undefined symbol while the table holds the
\* unqualified name it refers to
C26_DotNameFallsBack ==
    \A e \in ReportedErrors :
        UndefinedError(e) =>
            \A n \in DotReferences(e.line) : ~lookupDirect(symtab, n).found

\* a jump to .data placed under the global label a was encoded with the value of
\* the segment's symbol, which the table holds only under the unqualified name
C26_Witness ==
    \E k \in Entries :
        LET stmt == StatementOf(cg.m_listing[k]) IN
        /\ cg.m_listing[k].success
        /\ IsRelative(stmt) /\ stmt.operands[1].label = DATA
        /\ symtab.m_current_global_label = A
        /\ lookupDirect(symtab, DATA).found
        /\ ~lookup(symtab, DATA).found
        /\ \E t \in Entries :
              StatementOf(cg.m_listing[t]).kind = "SEGMENT" /\ ReachesTarget(k, t)

\* the SEGMENT statements before statement i
EnteredBefore(i) == { s \in 1..(i - 1) : program[s].kind = "SEGMENT" }

Latest(S) == CHOOSE m \in S : \A q \in S : q <= m

\* statement i switches from a code segment to a data segment
CodeToData(i) ==
    /\ program[i].kind = "SEGMENT"
    /\ isDataSegment(program[i].name)
    /\ EnteredBefore(i) # {}
    /\ isCodeSegment(program[Latest(EnteredBefore(i))].name)

\* the instructions of the code segment that statement i leaves
InstructionsBefore(i) ==
    { j \in (Latest(EnteredBefore(i)) + 1)..(i - 1) : program[j].kind = "Instruction" }

Terminates(stmt) == stmt.mnemonic \in {"HLT", "RET", "RETF", "IRET", "JMP", "INT"}

FallThroughCount(errors) ==
    Cardinality({ k \in DOMAIN errors : errors[k].message = FallThroughMessage })

\* the step of pass 1 over a switch from code to data reports the fall-through
\* exactly when the last instruction of the code segment does not end the flow
SwitchStep ==
    (/\ pc = "pass1" /\ idx <= Len(program)
     /\ CodeToData(idx) /\ InstructionsBefore(idx) # {})
    => (FallThroughCount(sa'.m_errors) > FallThroughCount(sa.m_errors)
          <=> ~Terminates(program[Latest(InstructionsBefore(idx))]))

\* C27: when the last instruction before a switch from a code segment to a data
\* segment is HLT, RET, RETF, IRET, JMP or INT, with or without operands, no
\* fall-through diagnostic is produced; otherwise one is produced
C27_TerminatorSilences == [][SwitchStep]_vars

\* pass 1 went over a switch from code to data whose last instruction is a
\* terminator written without operands
C27_Witness ==
    /\ pc = "pass1"
    /\ \E i \in 1..(idx - 1) :
          /\ CodeToData(i) /\ InstructionsBefore(i) # {}
          /\ Terminates(program[Latest(InstructionsBefore(i))])
          /\ program[Latest(InstructionsBefore(i))].operands = <<>>

\* the number of parentheses open before position i of a text
RECURSIVE Depth(_, _)
Depth(text, i) ==
    IF i <= 1 THEN 0
    ELSE Depth(text, i - 1)
         + (IF text[i - 1] = "(" THEN 1 ELSE IF text[i - 1] = ")" THEN -1 ELSE 0)

\* the value of an expression by the usual rules: a parenthesised part is one
\* operand, + and - bind weaker than * and /, equal operators group from the left
RECURSIVE Meaning(_)
MeaningAt(text, i) ==
    Arithmetic(text[i], Meaning(SubSeq(text, 1, i - 1)),
               Meaning(SubSeq(text, i + 1, Len(text))))

Meaning(text) ==
    LET outer(places) == { i \in places : Depth(text, i) = 0 } IN
    IF text = <<>> THEN NoValue
    ELSE IF outer(AdditivePlaces(text)) # {}
    THEN MeaningAt(text, Latest(outer(AdditivePlaces(text))))
    ELSE IF outer(MultiplicativePlaces(text)) # {}
    THEN MeaningAt(text, Latest(outer(MultiplicativePlaces(text))))
    ELSE IF text[1] = "(" /\ text[Len(text)] = ")"
    THEN Meaning(SubSeq(text, 2, Len(text) - 1))
    ELSE parseNumber(text)

\* the listing entries of instructions whose immediate is an expression that has
\* a value once the constants of the table are written out
ExpressionEntries ==
    { k \in Entries :
        LET stmt == StatementOf(cg.m_listing[k]) IN
        /\ stmt.kind = "Instruction" /\ Len(stmt.operands) = 2
        /\ stmt.operands[2].op = "imm" /\ stmt.operands[2].has_label
        /\ is_expression(stmt.operands[2].label_name)
        /\ Meaning(Substituted(stmt.operands[2].label_name, symtab)).ok }

\* C28: the evaluator gives * and / precedence over + and -, and a parenthesised
\* sub-expression is evaluated as a unit wherever it appears: an immediate
\* expression is encoded with the value it has by these rules
C28_PrecedenceAndParentheses ==
    \A k \in ExpressionEntries :
        /\ cg.m_listing[k].success
        /\ cg.m_listing[k].machine_code
             = <<184>> \o encodeBytes(
                   Meaning(Substituted(StatementOf(cg.m_listing[k]).operands[2].label_name,
                                       symtab)).value, 2)

\* 2+3*c with c = 4 was encoded as 14
C28_Witness ==
    \E k \in ExpressionEntries :
        /\ StatementOf(cg.m_listing[k]).operands[2].label_name = <<"2", "+", "3", "*", "c">>
        /\ cg.m_listing[k].machine_code = <<184, 14, 0>>

\* symbol sy was defined by a label or a constant and has the kind and the value
\* of that definition
AsDefined(sy) ==
    IF program[sy.definition_line].kind = "EQU"
    THEN sy.type = "CONSTANT" /\ sy.value = program[sy.definition_line].value
    ELSE sy.type = "LABEL" /\ sy.value = RecordedAddress(sy.definition_line)

\* C29: a SEGMENT directive never changes the kind or the value of a symbol that
\* a label or EQU defined: every such symbol of the table keeps both
C29_SegmentKeepsSymbol ==
    \A q \in DOMAIN symtab.m_symbols :
        (/\ symtab.m_symbols[q].definition_line \in DOMAIN program
         /\ Defines(symtab.m_symbols[q].definition_line))
        => AsDefined(symtab.m_symbols[q])

\* pass 1 went over a SEGMENT directive whose name a label or a constant had taken
C29_Witness ==
    /\ pc = "pass1"
    /\ \E i \in 1..(idx - 1) : \E j \in 1..(i - 1) :
          /\ program[i].kind = "SEGMENT"
          /\ Defines(j)
          /\ FoldCase(program[j].name) = FoldCase(program[i].name)

\* the scope the analyzer had when it processed statement i: the name of the global
\* label that most recently precedes it, empty when there is none
AnalyzerScope(i) == IF ScopeOf(i) = 0 THEN <<>> ELSE program[ScopeOf(i)].name

\* the emitter is about to encode statement idx, which looks symbols up
AboutToEncode ==
    /\ pc = "generate" /\ idx <= Len(program)
    /\ program[idx].kind \in {"Instruction", "Data", "TIMES"}

\* C30: whenever the emitter encodes a statement, the global scope used for lookup
\* is the scope the analyzer had at that statement; statements before the first
\* global label are looked up with the empty scope
C30_EmitterScopeIsAnalyzerScope ==
    AboutToEncode => symtab.m_current_global_label = AnalyzerScope(idx)

\* the emitter is about to encode an instruction that precedes the first global
\* label of a program that has one
C30_Witness ==
    /\ AboutToEncode
    /\ ScopeOf(idx) = 0
    /\ \E j \in (idx + 1)..Len(program) : IsGlobalLabel(j)

====
